---- MODULE Spec2Model ----
(***************************************************************************)
(* Subtitle timeline engine of the all-in-one-suite video editor.          *)
(*                                                                         *)
(* Two variants of the editor are modelled:                                *)
(*   "browser"  src/src/App.tsx       (FFmpeg-wasm, Supabase functions)    *)
(*   "backend"  src/unnamed/part_000  (REST backend, ripple SRT editor)    *)
(*                                                                         *)
(* JavaScript numbers are modelled as exact rationals [n, d] in lowest     *)
(* terms with d > 0; d = 0 encodes NaN (n = 0) and +/-Infinity (n = +/-1). *)
(* JavaScript strings are modelled as sequences of one-character strings.  *)
(***************************************************************************)
EXTENDS Integers, Sequences, FiniteSets, TLC

(***************************************************************************)
(* JavaScript Number arithmetic                                            *)
(***************************************************************************)
Abs(i) ==
    IF i < 0 THEN -i ELSE i

Sign(i) ==
    IF i < 0 THEN -1 ELSE IF i > 0 THEN 1 ELSE 0

RECURSIVE Gcd(_, _)
Gcd(a, b) ==
    IF b = 0 THEN a ELSE Gcd(b, a % b)

Num(n, d) ==
    IF d = 0
    THEN [n |-> Sign(n), d |-> 0]
    ELSE LET g == Gcd(Abs(n), Abs(d))
             s == IF d < 0 THEN -1 ELSE 1
         IN  [n |-> s * (n \div g), d |-> s * (d \div g)]

NaN ==
    [n |-> 0, d |-> 0]

Zero ==
    [n |-> 0, d |-> 1]

IntNum(i) ==
    [n |-> i, d |-> 1]

isNaN(x) ==
    x.d = 0 /\ x.n = 0

Add(a, b) ==
    IF isNaN(a) \/ isNaN(b) THEN NaN
    ELSE IF a.d = 0 /\ b.d = 0 THEN (IF a.n = b.n THEN a ELSE NaN)
    ELSE IF a.d = 0 THEN a
    ELSE IF b.d = 0 THEN b
    ELSE Num(a.n * b.d + b.n * a.d, a.d * b.d)

Neg(a) ==
    [n |-> -a.n, d |-> a.d]

Sub(a, b) ==
    Add(a, Neg(b))

Mul(a, b) ==
    Num(a.n * b.n, a.d * b.d)

Div(a, b) ==
    Num(a.n * b.d, a.d * b.n)

\* a < b; every comparison with NaN is false
Lt(a, b) ==
    /\ ~isNaN(a)
    /\ ~isNaN(b)
    /\ IF a.d # 0 /\ b.d # 0
       THEN a.n * b.d < b.n * a.d
       ELSE a # b /\ (a = [n |-> -1, d |-> 0] \/ b = [n |-> 1, d |-> 0])

Le(a, b) ==
    /\ ~isNaN(a)
    /\ ~isNaN(b)
    /\ (a = b \/ Lt(a, b))

\* !x for a number x: true for 0 and NaN
Falsy(x) ==
    isNaN(x) \/ x = Zero

\* Math.floor of a finite number, as an integer
Floor(a) ==
    a.n \div a.d

\* ToIntegerOrInfinity of a finite number: truncation toward zero
Trunc(a) ==
    IF a.n >= 0 THEN a.n \div a.d ELSE -((-a.n) \div a.d)

\* Math.round of a finite number: floor(x + 1/2)
Round(a) ==
    (2 * a.n + a.d) \div (2 * a.d)

\* a % m for a finite a and an integer m > 0: the sign follows the dividend
Rem(a, m) ==
    Sub(a, IntNum(m * Trunc(Div(a, IntNum(m)))))

(***************************************************************************)
(* JavaScript String helpers                                               *)
(***************************************************************************)
DigitChars ==
    <<"0", "1", "2", "3", "4", "5", "6", "7", "8", "9">>

IsDigit(c) ==
    \E i \in 1..10 : DigitChars[i] = c

DigitValue(c) ==
    (CHOOSE i \in 1..10 : DigitChars[i] = c) - 1

\* the characters \s matches and String.prototype.trim removes
IsSpace(c) ==
    c \in {" ", "\n", "\r", "\t"}

\* the value of a missing array element or parameter
Undefined ==
    <<"undefined">>

SetMin(S) ==
    CHOOSE x \in S : \A y \in S : x <= y

SetMax(S) ==
    CHOOSE x \in S : \A y \in S : y <= x

\* the positions of s that hold no white space
NonSpace(s) ==
    {i \in 1..Len(s) : ~IsSpace(s[i])}

TrimStart(s) ==
    IF NonSpace(s) = {} THEN <<>> ELSE SubSeq(s, SetMin(NonSpace(s)), Len(s))

Trim(s) ==
    IF NonSpace(s) = {} THEN <<>> ELSE SubSeq(s, SetMin(NonSpace(s)), SetMax(NonSpace(s)))

StartsWithAt(s, i, sub) ==
    /\ i + Len(sub) - 1 <= Len(s)
    /\ SubSeq(s, i, i + Len(sub) - 1) = sub

\* String.prototype.indexOf, 1-based; 0 when sub does not occur from position i on
IndexOf(s, sub, i) ==
    LET hits == {j \in i..Len(s) : StartsWithAt(s, j, sub)}
    IN  IF hits = {} THEN 0 ELSE SetMin(hits)

Includes(s, sub) ==
    IndexOf(s, sub, 1) # 0

\* String.prototype.split with a non-empty string separator
RECURSIVE Split(_, _)
Split(s, sep) ==
    LET i == IndexOf(s, sep, 1)
    IN  IF i = 0 THEN <<s>>
        ELSE <<SubSeq(s, 1, i - 1)>> \o Split(SubSeq(s, i + Len(sep), Len(s)), sep)

\* String.prototype.replace with a string pattern: the first occurrence only
ReplaceFirst(s, sub, rep) ==
    LET i == IndexOf(s, sub, 1)
    IN  IF i = 0 THEN s
        ELSE SubSeq(s, 1, i - 1) \o rep \o SubSeq(s, i + Len(sub), Len(s))

\* Array.prototype.join
RECURSIVE Join(_, _)
Join(parts, sep) ==
    IF parts = <<>> THEN <<>>
    ELSE IF Len(parts) = 1 THEN parts[1]
    ELSE parts[1] \o sep \o Join(Tail(parts), sep)

\* replace(/\r\n/g, '\n') and the \r? of split(/\r?\n/)
DropCR(s) ==
    Join(Split(s, <<"\r", "\n">>), <<"\n">>)

\* the longest prefix of s made of digits
DigitPrefix(s) ==
    LET non == {j \in 1..Len(s) : ~IsDigit(s[j])}
    IN  SubSeq(s, 1, IF non = {} THEN Len(s) ELSE SetMin(non) - 1)

RECURSIVE DigitsToInt(_)
DigitsToInt(ds) ==
    IF ds = <<>> THEN 0
    ELSE 10 * DigitsToInt(SubSeq(ds, 1, Len(ds) - 1)) + DigitValue(ds[Len(ds)])

RECURSIVE Pow10(_)
Pow10(k) ==
    IF k = 0 THEN 1 ELSE 10 * Pow10(k - 1)

\* parseInt(s, 10) and parseInt(s): leading white space, a sign, the digits
parseInt(str) ==
    LET s    == TrimStart(str)
        neg  == s # <<>> /\ Head(s) = "-"
        body == IF s # <<>> /\ Head(s) \in {"-", "+"} THEN Tail(s) ELSE s
        ds   == DigitPrefix(body)
    IN  IF ds = <<>> THEN NaN
        ELSE IntNum((IF neg THEN -1 ELSE 1) * DigitsToInt(ds))

\* parseFloat(s): leading white space, a sign, digits, a fraction
parseFloat(str) ==
    LET s    == TrimStart(str)
        neg  == s # <<>> /\ Head(s) = "-"
        body == IF s # <<>> /\ Head(s) \in {"-", "+"} THEN Tail(s) ELSE s
        ip   == DigitPrefix(body)
        rest == SubSeq(body, Len(ip) + 1, Len(body))
        fp   == IF rest # <<>> /\ Head(rest) = "." THEN DigitPrefix(Tail(rest)) ELSE <<>>
        mag  == Num(DigitsToInt(ip) * Pow10(Len(fp)) + DigitsToInt(fp), Pow10(Len(fp)))
    IN  IF ip = <<>> /\ fp = <<>> THEN NaN
        ELSE IF neg THEN Neg(mag) ELSE mag

\* String(i) for an integer i
RECURSIVE NatToStr(_)
NatToStr(i) ==
    IF i < 10 THEN <<DigitChars[i + 1]>>
    ELSE NatToStr(i \div 10) \o <<DigitChars[(i % 10) + 1]>>

IntToStr(i) ==
    IF i < 0 THEN <<"-">> \o NatToStr(-i) ELSE NatToStr(i)

\* String.prototype.padStart(len, '0')
RECURSIVE padStart(_, _)
padStart(s, len) ==
    IF Len(s) >= len THEN s ELSE padStart(<<"0">> \o s, len)

(***************************************************************************)
(* Timecode codec and SRT serializers                                      *)
(***************************************************************************)
NaNStr ==
    <<"N", "a", "N">>

\* String(x) for the component x of a timecode: an integer, NaN or an infinity
NumToStr(x) ==
    IF isNaN(x) THEN NaNStr
    ELSE IF x.d = 0 THEN (IF x.n < 0 THEN <<"-">> ELSE <<>>) \o <<"I", "n", "f", "i", "n", "i", "t", "y">>
    ELSE IntToStr(Floor(x))

\* Math.floor(x) as a number: NaN and the infinities stay what they are
FloorNum(x) ==
    IF x.d = 0 THEN x ELSE IntNum(Floor(x))

\* x % m as a number: NaN for NaN and for an infinite dividend
RemNum(x, m) ==
    IF x.d = 0 THEN NaN ELSE Rem(x, m)

\* Math.round(x) as a number
RoundNum(x) ==
    IF x.d = 0 THEN x ELSE IntNum(Round(x))

\* the value a throwing call leaves in place of a string
RangeError ==
    <<"RangeError">>

\* formatSRTTime: new Date(0), setSeconds, setMilliseconds, toISOString().substr(11, 12).
\* setSeconds and setMilliseconds truncate their argument toward zero; the twelve
\* characters taken are the time of day, so the hours wrap at 24.
formatSRTTime(seconds) ==
    IF seconds.d = 0 THEN RangeError
    ELSE LET tv  == Trunc(seconds) * 1000 + Trunc(Mul(Rem(seconds, 1), IntNum(1000)))
             tod == tv % 86400000
             hh  == tod \div 3600000
             mm  == (tod % 3600000) \div 60000
             ss  == (tod % 60000) \div 1000
             ms  == tod % 1000
         IN  padStart(NatToStr(hh), 2) \o <<":">> \o padStart(NatToStr(mm), 2) \o <<":">>
               \o padStart(NatToStr(ss), 2) \o <<",">> \o padStart(NatToStr(ms), 3)

\* element i of the array a, undefined past its end (array destructuring)
ElementAt(a, i) ==
    IF i <= Len(a) THEN a[i] ELSE Undefined

srtTimeToSeconds(timeStr) ==
    LET parts == Split(timeStr, <<",">>)
        time  == parts[1]
        ms    == ElementAt(parts, 2)
        hms   == Split(time, <<":">>)
        h     == ElementAt(hms, 1)
        m     == ElementAt(hms, 2)
        s     == ElementAt(hms, 3)
        msStr == IF ms = Undefined \/ ms = <<>> THEN <<"0">> ELSE ms
    IN  Add(Add(Add(Mul(parseInt(h), IntNum(3600)), Mul(parseInt(m), IntNum(60))), parseInt(s)),
            Div(parseInt(msStr), IntNum(1000)))

secondsToSrtTime(seconds) ==
    LET h  == FloorNum(Div(seconds, IntNum(3600)))
        m  == FloorNum(Div(RemNum(seconds, 3600), IntNum(60)))
        s  == FloorNum(RemNum(seconds, 60))
        ms == RoundNum(Mul(Sub(seconds, FloorNum(seconds)), IntNum(1000)))
    IN  padStart(NumToStr(h), 2) \o <<":">> \o padStart(NumToStr(m), 2) \o <<":">>
          \o padStart(NumToStr(s), 2) \o <<",">> \o padStart(NumToStr(ms), 3)

Arrow ==
    <<"-", "-", ">">>

SpacedArrow ==
    <<" ", "-", "-", ">", " ">>

NL ==
    <<"\n">>

\* generateSRT of src/src/App.tsx: blocks end in a line break and are joined by one more
generateSRT(subs) ==
    Join([i \in 1..Len(subs) |->
            IntToStr(i) \o NL \o formatSRTTime(subs[i].startTime) \o SpacedArrow
              \o formatSRTTime(subs[i].endTime) \o NL \o subs[i].text \o NL],
         NL)

\* stringifySRT of the backend variant: blocks joined by a blank line
stringifySRT(subs) ==
    Join([i \in 1..Len(subs) |->
            IntToStr(i) \o NL \o secondsToSrtTime(subs[i].start) \o SpacedArrow
              \o secondsToSrtTime(subs[i].end) \o NL \o subs[i].text],
         NL \o NL)

(***************************************************************************)
(* SRT parser of the backend variant (src/unnamed/part_000)                *)
(***************************************************************************)
\* the last index of the run of white space that starts at i (i - 1 when s[i] is none)
SpaceRunEnd(s, i) ==
    LET non == {j \in i..Len(s) : ~IsSpace(s[j])}
    IN  IF non = {} THEN Len(s) ELSE SetMin(non) - 1

\* the end of the match of /\n\s*\n/ that starts at p, 0 when there is none
BlankMatchEnd(s, p) ==
    LET r    == SpaceRunEnd(s, p + 1)
        ends == {e \in (p + 1)..r : s[e] = "\n"}
    IN  IF s[p] = "\n" /\ ends # {}
        THEN SetMax(ends)
        ELSE 0

\* String.prototype.split(/\n\s*\n/)
RECURSIVE SplitBlank(_)
SplitBlank(s) ==
    LET starts == {p \in 1..Len(s) : BlankMatchEnd(s, p) # 0}
    IN  IF starts = {} THEN <<s>>
        ELSE LET p == SetMin(starts)
             IN  <<SubSeq(s, 1, p - 1)>>
                   \o SplitBlank(SubSeq(s, BlankMatchEnd(s, p) + 1, Len(s)))

\* the blocks parseSRT iterates over
BackendBlocks(srt) ==
    SplitBlank(Trim(DropCR(srt)))

\* whether a block passes both tests of parseSRT: three lines, '-->' in the second
BackendBlockHasTiming(block) ==
    LET lines == Split(block, NL)
    IN  Len(lines) >= 3 /\ Includes(lines[2], Arrow)

\* the entry parseSRT pushes for a block, given the entries pushed so far
BackendBlockEntry(block, parsed) ==
    LET lines    == Split(block, NL)
        id       == parseInt(lines[1])
        timeLine == lines[2]
        parts    == Split(timeLine, SpacedArrow)
        startStr == ElementAt(parts, 1)
        endStr   == ElementAt(parts, 2)
        text     == Join(SubSeq(lines, 3, Len(lines)), NL)
    IN  [id    |-> IF Falsy(id) THEN Len(parsed) + 1 ELSE id.n,
         start |-> srtTimeToSeconds(startStr),
         end   |-> srtTimeToSeconds(endStr),
         text  |-> text]

RECURSIVE BackendParseBlocks(_, _)
BackendParseBlocks(blocks, parsed) ==
    IF blocks = <<>> THEN parsed
    ELSE BackendParseBlocks(Tail(blocks),
            IF BackendBlockHasTiming(Head(blocks))
            THEN Append(parsed, BackendBlockEntry(Head(blocks), parsed))
            ELSE parsed)

parseSRT_backend(srt) ==
    BackendParseBlocks(BackendBlocks(srt), <<>>)

\* parseSRT throws (srtTimeToSeconds(undefined).split) when a timing line holds '-->'
\* without the spaces of ' --> ' around it
parseSRT_backend_throws(srt) ==
    LET blocks == BackendBlocks(srt)
    IN  \E i \in 1..Len(blocks) :
            /\ BackendBlockHasTiming(blocks[i])
            /\ Len(Split(Split(blocks[i], NL)[2], SpacedArrow)) < 2

(***************************************************************************)
(* SRT parser of the in-browser variant (src/src/App.tsx)                  *)
(***************************************************************************)
\* replace(/[^0-9:.,]/g, '')
KeepTimeChars(s) ==
    SelectSeq(s, LAMBDA c : IsDigit(c) \/ c \in {":", ".", ","})

\* (isNaN(v) ? 0 : v * k)
OrZero(v, k) ==
    IF isNaN(v) THEN Zero ELSE Mul(v, IntNum(k))

parseTime(t) ==
    LET clean == KeepTimeChars(Trim(t))
        parts == Split(ReplaceFirst(clean, <<",">>, <<".">>), <<":">>)
    IN  IF Len(parts) = 3
        THEN Add(Add(OrZero(parseFloat(parts[1]), 3600), OrZero(parseFloat(parts[2]), 60)),
                 OrZero(parseFloat(parts[3]), 1))
        ELSE IF Len(parts) = 2
        THEN Add(Add(Zero, OrZero(parseFloat(parts[1]), 60)), OrZero(parseFloat(parts[2]), 1))
        ELSE Zero

\* /^\d+$/.test(line)
IsAllDigits(line) ==
    line # <<>> /\ \A i \in 1..Len(line) : IsDigit(line[i])

\* whether /[\n\s]+\d+\s*$/ matches at position p
TrailingNumberAt(s, p) ==
    LET a == SpaceRunEnd(s, p)
        b == a + Len(DigitPrefix(SubSeq(s, a + 1, Len(s))))
    IN  /\ IsSpace(s[p])
        /\ b > a
        /\ SpaceRunEnd(s, b + 1) = Len(s)

\* replace(/[\n\s]+\d+\s*$/, ''): the leftmost match is removed
StripTrailingNumber(s) ==
    LET starts == {p \in 1..Len(s) : TrailingNumberAt(s, p)}
    IN  IF starts = {} THEN s
        ELSE SubSeq(s, 1, SetMin(starts) - 1)

\* the flush of the entry being collected: lines 79-82 and 91-94.
\* crypto.randomUUID() is modelled by the entry's position, unique in its timeline.
FlushEntry(st) ==
    LET cleanedText == StripTrailingNumber(Trim(st.currentText))
    IN  IF st.hasTiming /\ st.currentText # <<>> /\ cleanedText # <<>>
        THEN Append(st.subtitles,
                    [id |-> Len(st.subtitles) + 1, startTime |-> st.currentStart,
                     endTime |-> st.currentEnd, text |-> cleanedText, x |-> 50])
        ELSE st.subtitles

\* one iteration of the loop over the lines
ParseLine(st, rawLine) ==
    LET line == Trim(rawLine)
    IN  IF line = <<>> THEN st
        ELSE IF Includes(line, Arrow)
        THEN LET parts == Split(line, Arrow)
             IN  [subtitles    |-> FlushEntry(st),
                  currentStart |-> parseTime(parts[1]),
                  currentEnd   |-> parseTime(parts[2]),
                  currentText  |-> <<>>,
                  hasTiming    |-> TRUE]
        ELSE IF IsAllDigits(line) THEN st
        ELSE IF st.hasTiming
        THEN [st EXCEPT !.currentText =
                 st.currentText \o (IF st.currentText # <<>> THEN <<" ">> ELSE <<>>) \o line]
        ELSE st

RECURSIVE ParseLines(_, _)
ParseLines(st, lines) ==
    IF lines = <<>> THEN st ELSE ParseLines(ParseLine(st, Head(lines)), Tail(lines))

parseSRT(srt) ==
    FlushEntry(ParseLines([subtitles |-> <<>>, currentStart |-> Zero, currentEnd |-> Zero,
                           currentText |-> <<>>, hasTiming |-> FALSE],
                          Split(DropCR(srt), NL)))

(***************************************************************************)
(* Timeline transforms                                                     *)
(***************************************************************************)
\* no clamping at all
ClampNegative_never(v) ==
    v

\* `if (v < 0) v = 0`: NaN compares false and stays
ClampNegative(v) ==
    IF Lt(v, Zero) THEN Zero ELSE v

\* a shift that moves the starts but forgets the ends
ShiftSubtitles_startOnly(prev, index, newStart) ==
    LET delta == Sub(newStart, prev[index].start)
    IN  [i \in 1..Len(prev) |->
            IF i < index THEN prev[i]
            ELSE [prev[i] EXCEPT !.start = ClampNegative(Add(prev[i].start, delta))]]

\* the state updater of handleSubtitleShift; index is 1-based here
ShiftSubtitles(prev, index, newStart) ==
    LET delta == Sub(newStart, prev[index].start)
    IN  [i \in 1..Len(prev) |->
            IF i < index THEN prev[i]
            ELSE [prev[i] EXCEPT !.start = ClampNegative(Add(prev[i].start, delta)),
                                 !.end   = ClampNegative(Add(prev[i].end, delta))]]

\* an end edit that refuses an end before the start
SetSubtitleEnd_validated(prev, index, newEnd) ==
    IF Lt(newEnd, prev[index].start) THEN prev ELSE [prev EXCEPT ![index].end = newEnd]

\* the state updater of handleSubtitleEndChange
SetSubtitleEnd(prev, index, newEnd) ==
    [prev EXCEPT ![index].end = newEnd]

\* a text edit that reaches every entry
SetSubtitleText_all(prev, index, newText) ==
    [i \in 1..Len(prev) |-> [prev[i] EXCEPT !.text = newText]]

\* the state updater of handleSubtitleTextChange
SetSubtitleText(prev, index, newText) ==
    [prev EXCEPT ![index].text = newText]

\* the state updater of updateSubtitleText: every entry with that id
SetTextById(prev, id, text) ==
    [i \in 1..Len(prev) |-> IF prev[i].id = id THEN [prev[i] EXCEPT !.text = text] ELSE prev[i]]

\* `videoRef.current?.duration || duration`
CurrentVideoDuration(elementDuration, stateDuration) ==
    IF Falsy(elementDuration) THEN stateDuration ELSE elementDuration

\* `if (!aiAudioDuration || !currentVideoDuration) throw`
DurationsRejected(aiAudioDuration, currentVideoDuration) ==
    Falsy(aiAudioDuration) \/ Falsy(currentVideoDuration)

\* the ratio cut down to a whole number
StretchRatio_floored(aiAudioDuration, currentVideoDuration) ==
    LET r == Div(aiAudioDuration, currentVideoDuration)
    IN  IF r.d = 0 THEN r ELSE IntNum(Floor(r))

\* the ratio upside down
StretchRatio_inverted(aiAudioDuration, currentVideoDuration) ==
    Div(currentVideoDuration, aiAudioDuration)

\* stretchRatio
StretchRatio(aiAudioDuration, currentVideoDuration) ==
    Div(aiAudioDuration, currentVideoDuration)

\* a rescaling of the starts that leaves the ends where they were
ScaleSubtitles_startsOnly(prev, stretchRatio) ==
    [i \in 1..Len(prev) |->
        [prev[i] EXCEPT !.startTime = Mul(prev[i].startTime, stretchRatio)]]

\* a rescaling that stops after the first entry
ScaleSubtitles_firstOnly(prev, stretchRatio) ==
    [i \in 1..Len(prev) |->
        IF i > 1 THEN prev[i]
        ELSE [prev[i] EXCEPT !.startTime = Mul(prev[i].startTime, stretchRatio),
                             !.endTime   = Mul(prev[i].endTime, stretchRatio)]]

\* the state updater of handleSyncVideo: every timing times the ratio
ScaleSubtitles(prev, stretchRatio) ==
    [i \in 1..Len(prev) |->
        [prev[i] EXCEPT !.startTime = Mul(prev[i].startTime, stretchRatio),
                        !.endTime   = Mul(prev[i].endTime, stretchRatio)]]

(***************************************************************************)
(* The editing session: state                                              *)
(***************************************************************************)
VARIABLES
    variant,            \* which App component is mounted: "browser" or "backend"
    videoFile,          \* useState<File | null>
    videoSrc,           \* useState<string | null>: the object URL, modelled by its file
    elDuration,         \* videoRef.current.duration: NaN until the metadata has loaded
    duration,           \* useState<number>(0)
    subtitles,          \* useState<Subtitle[]> / useState<SubtitleItem[]>
    scriptText,         \* useState<string>(''), backend variant
    generatedAudioSrc,  \* useState<string | null>: the object URL, modelled by its audio
    generatedAudioBlob, \* useState<Blob | null>, backend variant
    isProcessing,       \* useState<boolean>(false)
    processingStep,     \* useState<string>('')
    isExporting,        \* useState<boolean>(false)
    error,              \* useState<string | null>(null)
    pending,            \* the async handlers suspended at an await, with their closures
    last,               \* history: the handler step taken last and the state it started from
    uploads,            \* number of files chosen so far
    requests,           \* number of async handlers started so far
    edits,              \* number of editor changes so far
    fnIn,               \* the argument of the function under test (function-level runs)
    fnOut               \* its result

vars ==
    <<variant, videoFile, videoSrc, elDuration, duration, subtitles, scriptText,
      generatedAudioSrc, generatedAudioBlob, isProcessing, processingStep, isExporting,
      error, pending, last, uploads, requests, edits, fnIn, fnOut>>

fnVars ==
    <<fnIn, fnOut>>

\* null is the empty tuple, a value v is the tuple <<v>>
Null ==
    <<>>

MaxUploads ==
    2

MaxRequests ==
    3

MaxEdits ==
    2

\* durations of the videos a user picks
UploadDurations ==
    {IntNum(10), IntNum(4)}

\* durations of the audio the text-to-speech collaborator returns
AudioDurations ==
    {Zero, IntNum(15)}

\* SRT texts the collaborators return
SrtA ==
    <<"1", "\n", "0", "0", ":", "0", "0", ":", "0", "1", ",", "0", "0", "0", " ", "-", "-", ">", " ", "0", "0", ":", "0", "0", ":", "0", "3", ",", "0", "0", "0", "\n", "H", "e", "l", "l", "o", "\n", "\n", "2", "\n", "0", "0", ":", "0", "0", ":", "0", "3", ",", "5", "0", "0", " ", "-", "-", ">", " ", "0", "0", ":", "0", "0", ":", "0", "6", ",", "0", "0", "0", "\n", "W", "o", "r", "l", "d">>

SrtB ==
    <<"1", "\n", "0", "0", ":", "0", "0", ":", "0", "0", ",", "0", "0", "0", " ", "-", "-", ">", " ", "0", "0", ":", "0", "0", ":", "0", "2", ",", "0", "0", "0", "\n", "H", "i", "\n">>

SrtResponses ==
    {SrtA, SrtB}

\* texts typed or returned as script or caption text
SomeText ==
    <<"O", "k">>

EditTexts ==
    {<<>>, SomeText}

\* values typed into the start and end inputs
TimeInputs ==
    {IntNum(-1), Zero, Num(5, 2)}

NoRequest ==
    [kind |-> "none", pc |-> "none", videoFile |-> Null, audio |-> Null, duration |-> Zero,
     aiAudioDuration |-> NaN, currentVideoDuration |-> NaN, stretchRatio |-> NaN,
     subtitles |-> <<>>]

\* the closure of an async handler at its first await
NewRequest(kind, pc, audio) ==
    [NoRequest EXCEPT !.kind = kind, !.pc = pc, !.videoFile = videoFile, !.audio = audio,
                      !.duration = duration]

Snapshot ==
    [subtitles |-> subtitles, videoFile |-> videoFile, videoSrc |-> videoSrc,
     duration |-> duration, error |-> error]

Step(op, index, value, text, req) ==
    [op |-> op, index |-> index, value |-> value, text |-> text, req |-> req,
     prev |-> Snapshot]

\* the useState initial values of either App component
Mounted ==
    /\ videoFile = Null
    /\ videoSrc = Null
    /\ elDuration = NaN
    /\ duration = Zero
    /\ subtitles = <<>>
    /\ scriptText = <<>>
    /\ generatedAudioSrc = Null
    /\ generatedAudioBlob = Null
    /\ isProcessing = FALSE
    /\ processingStep = ""
    /\ isExporting = FALSE
    /\ error = Null
    /\ pending = {}
    /\ last = [op |-> "mount", index |-> 0, value |-> NaN, text |-> <<>>, req |-> NoRequest,
               prev |-> [subtitles |-> <<>>, videoFile |-> Null, videoSrc |-> Null,
                         duration |-> Zero, error |-> Null]]
    /\ uploads = 0
    /\ requests = 0
    /\ edits = 0

Init ==
    /\ variant \in {"browser", "backend"}
    /\ Mounted
    /\ fnIn = Null
    /\ fnOut = Null

(***************************************************************************)
(* In-browser variant (src/src/App.tsx): handlers                          *)
(***************************************************************************)
Browser ==
    variant = "browser"

\* the disabled attribute shared by the collaborator buttons
Idle ==
    ~isProcessing /\ ~isExporting

\* the timelines parseSRT makes of the collaborators' answers
ParsedResponse ==
    [srt \in SrtResponses |-> parseSRT(srt)]

handleFileUpload ==
    /\ Browser
    /\ uploads < MaxUploads
    /\ \E d \in UploadDurations :
        LET file == [name |-> "upload", id |-> uploads + 1, dur |-> d]
        IN  /\ error' = Null
            /\ videoFile' = <<file>>
            /\ videoSrc' = <<file>>
            /\ subtitles' = <<>>
            /\ generatedAudioSrc' = Null
            /\ elDuration' = NaN
    /\ uploads' = uploads + 1
    /\ last' = Step("handleFileUpload", 0, NaN, <<>>, NoRequest)
    /\ UNCHANGED <<variant, duration, scriptText, generatedAudioBlob, isProcessing,
                   processingStep, isExporting, pending, requests, edits, fnVars>>

\* onLoadedMetadata={() => setDuration(videoRef.current?.duration || 0)}
onLoadedMetadata ==
    /\ Browser
    /\ videoSrc # Null
    /\ isNaN(elDuration)
    /\ elDuration' = videoSrc[1].dur
    /\ duration' = IF Falsy(videoSrc[1].dur) THEN Zero ELSE videoSrc[1].dur
    /\ last' = Step("onLoadedMetadata", 0, NaN, <<>>, NoRequest)
    /\ UNCHANGED <<variant, videoFile, videoSrc, subtitles, scriptText, generatedAudioSrc,
                   generatedAudioBlob, isProcessing, processingStep, isExporting, error,
                   pending, uploads, requests, edits, fnVars>>

handleTranscribe ==
    /\ Browser
    /\ videoFile # Null
    /\ Idle
    /\ requests < MaxRequests
    /\ isProcessing' = TRUE
    /\ error' = Null
    /\ processingStep' = "Extracting..."
    /\ pending' = pending \cup {NewRequest("handleTranscribe", "extract", Null)}
    /\ requests' = requests + 1
    /\ last' = Step("handleTranscribe", 0, NaN, <<>>, NoRequest)
    /\ UNCHANGED <<variant, videoFile, videoSrc, elDuration, duration, subtitles, scriptText,
                   generatedAudioSrc, generatedAudioBlob, isExporting, uploads, edits, fnVars>>

\* the audio is extracted: setProcessingStep("Transcribing...")
handleTranscribe_extracted ==
    /\ Browser
    /\ \E r \in pending :
        /\ r.kind = "handleTranscribe"
        /\ r.pc = "extract"
        /\ pending' = (pending \ {r}) \cup {[r EXCEPT !.pc = "invoke"]}
        /\ last' = Step("handleTranscribe.extracted", 0, NaN, <<>>, r)
    /\ processingStep' = "Transcribing..."
    /\ UNCHANGED <<variant, videoFile, videoSrc, elDuration, duration, subtitles, scriptText,
                   generatedAudioSrc, generatedAudioBlob, isProcessing, isExporting, error,
                   uploads, requests, edits, fnVars>>

handleTranscribe_resolved ==
    /\ Browser
    /\ \E r \in pending, srt \in SrtResponses :
        /\ r.kind = "handleTranscribe"
        /\ r.pc = "invoke"
        /\ pending' = pending \ {r}
        /\ last' = Step("handleTranscribe.resolved", 0, NaN, srt, r)
        /\ subtitles' = ParsedResponse[srt]
    /\ isProcessing' = FALSE
    /\ processingStep' = ""
    /\ UNCHANGED <<variant, videoFile, videoSrc, elDuration, duration, scriptText,
                   generatedAudioSrc, generatedAudioBlob, isExporting, error, uploads,
                   requests, edits, fnVars>>

\* any await of the handler rejects, or no srt comes back
handleTranscribe_rejected ==
    /\ Browser
    /\ \E r \in pending :
        /\ r.kind = "handleTranscribe"
        /\ pending' = pending \ {r}
        /\ last' = Step("handleTranscribe.rejected", 0, NaN, <<>>, r)
    /\ error' = <<"No subtitles returned.">>
    /\ isProcessing' = FALSE
    /\ processingStep' = ""
    /\ UNCHANGED <<variant, videoFile, videoSrc, elDuration, duration, subtitles, scriptText,
                   generatedAudioSrc, generatedAudioBlob, isExporting, uploads, requests,
                   edits, fnVars>>

handleTranslate ==
    /\ Browser
    /\ subtitles # <<>>
    /\ Idle
    /\ requests < MaxRequests
    /\ isProcessing' = TRUE
    /\ error' = Null
    /\ processingStep' = "Translating..."
    /\ pending' = pending \cup {[NewRequest("handleTranslate", "invoke", Null)
                                     EXCEPT !.subtitles = subtitles]}
    /\ requests' = requests + 1
    /\ last' = Step("handleTranslate", 0, NaN, <<>>, NoRequest)
    /\ UNCHANGED <<variant, videoFile, videoSrc, elDuration, duration, subtitles, scriptText,
                   generatedAudioSrc, generatedAudioBlob, isExporting, uploads, edits, fnVars>>

\* a translation whose answer is laid over the timeline of the moment: the captions
\* the answer has no entry for stay
handleTranslate_resolved_merged ==
    /\ Browser
    /\ \E r \in pending, srt \in SrtResponses :
        /\ r.kind = "handleTranslate"
        /\ pending' = pending \ {r}
        /\ last' = Step("handleTranslate.resolved", 0, NaN, srt, r)
        /\ subtitles' = [i \in 1..Len(subtitles) |->
                             IF i <= Len(ParsedResponse[srt]) THEN ParsedResponse[srt][i]
                             ELSE subtitles[i]]
    /\ isProcessing' = FALSE
    /\ processingStep' = ""
    /\ UNCHANGED <<variant, videoFile, videoSrc, elDuration, duration, scriptText,
                   generatedAudioSrc, generatedAudioBlob, isExporting, error, uploads,
                   requests, edits, fnVars>>

handleTranslate_resolved ==
    /\ Browser
    /\ \E r \in pending, srt \in SrtResponses :
        /\ r.kind = "handleTranslate"
        /\ pending' = pending \ {r}
        /\ last' = Step("handleTranslate.resolved", 0, NaN, srt, r)
        /\ subtitles' = ParsedResponse[srt]
    /\ isProcessing' = FALSE
    /\ processingStep' = ""
    /\ UNCHANGED <<variant, videoFile, videoSrc, elDuration, duration, scriptText,
                   generatedAudioSrc, generatedAudioBlob, isExporting, error, uploads,
                   requests, edits, fnVars>>

handleTranslate_rejected ==
    /\ Browser
    /\ \E r \in pending :
        /\ r.kind = "handleTranslate"
        /\ pending' = pending \ {r}
        /\ last' = Step("handleTranslate.rejected", 0, NaN, <<>>, r)
    /\ error' = <<"Translation failed">>
    /\ isProcessing' = FALSE
    /\ processingStep' = ""
    /\ UNCHANGED <<variant, videoFile, videoSrc, elDuration, duration, subtitles, scriptText,
                   generatedAudioSrc, generatedAudioBlob, isExporting, uploads, requests,
                   edits, fnVars>>

handleGenerateSpeech ==
    /\ Browser
    /\ subtitles # <<>>
    /\ Idle
    /\ requests < MaxRequests
    /\ isProcessing' = TRUE
    /\ error' = Null
    /\ processingStep' = "Generating single audio file..."
    /\ pending' = pending \cup {NewRequest("handleGenerateSpeech", "fetch", Null)}
    /\ requests' = requests + 1
    /\ last' = Step("handleGenerateSpeech", 0, NaN, <<>>, NoRequest)
    /\ UNCHANGED <<variant, videoFile, videoSrc, elDuration, duration, subtitles, scriptText,
                   generatedAudioSrc, generatedAudioBlob, isExporting, uploads, edits, fnVars>>

handleGenerateSpeech_resolved ==
    /\ Browser
    /\ \E r \in pending :
        /\ r.kind = "handleGenerateSpeech"
        /\ pending' = pending \ {r}
        /\ last' = Step("handleGenerateSpeech.resolved", 0, NaN, <<>>, r)
    /\ \E d \in AudioDurations : generatedAudioSrc' = <<[name |-> "tts", dur |-> d]>>
    /\ isProcessing' = FALSE
    /\ processingStep' = ""
    /\ UNCHANGED <<variant, videoFile, videoSrc, elDuration, duration, subtitles, scriptText,
                   generatedAudioBlob, isExporting, error, uploads, requests, edits, fnVars>>

handleGenerateSpeech_rejected ==
    /\ Browser
    /\ \E r \in pending :
        /\ r.kind = "handleGenerateSpeech"
        /\ pending' = pending \ {r}
        /\ last' = Step("handleGenerateSpeech.rejected", 0, NaN, <<>>, r)
    /\ error' = <<"Backend failed to generate audio">>
    /\ isProcessing' = FALSE
    /\ processingStep' = ""
    /\ UNCHANGED <<variant, videoFile, videoSrc, elDuration, duration, subtitles, scriptText,
                   generatedAudioSrc, generatedAudioBlob, isExporting, uploads, requests,
                   edits, fnVars>>

\* what getAudioDuration resolves when the audio element reports an error
ProbeErrorDuration ==
    Num(1, 10)

\* the button is enabled only with generated audio, and audio is only generated for
\* the captions of an uploaded video: the handler's own test of videoFile never fails
handleSyncVideo ==
    /\ Browser
    /\ generatedAudioSrc # Null
    /\ videoFile # Null
    /\ Idle
    /\ requests < MaxRequests
    /\ isProcessing' = TRUE
    /\ error' = Null
    /\ processingStep' = "Stretching video & scaling subtitles..."
    /\ pending' = pending \cup {NewRequest("handleSyncVideo", "probe", generatedAudioSrc)}
    /\ requests' = requests + 1
    /\ last' = Step("handleSyncVideo", 0, NaN, <<>>, NoRequest)
    /\ UNCHANGED <<variant, videoFile, videoSrc, elDuration, duration, subtitles, scriptText,
                   generatedAudioSrc, generatedAudioBlob, isExporting, uploads, edits, fnVars>>

\* lines 311-319: both durations are read and accepted, the ratio is computed
handleSyncVideo_durations ==
    /\ Browser
    /\ \E r \in pending :
        /\ r.kind = "handleSyncVideo"
        /\ r.pc = "probe"
        /\ \E aiAudioDuration \in {r.audio[1].dur, ProbeErrorDuration} :
            LET currentVideoDuration == CurrentVideoDuration(elDuration, r.duration)
                next == [r EXCEPT !.pc = "exec",
                                  !.aiAudioDuration = aiAudioDuration,
                                  !.currentVideoDuration = currentVideoDuration,
                                  !.stretchRatio =
                                      StretchRatio(aiAudioDuration, currentVideoDuration)]
            IN  /\ ~DurationsRejected(aiAudioDuration, currentVideoDuration)
                /\ pending' = (pending \ {r}) \cup {next}
                /\ last' = Step("handleSyncVideo.durations", 0, NaN, <<>>, next)
    /\ UNCHANGED <<variant, videoFile, videoSrc, elDuration, duration, subtitles, scriptText,
                   generatedAudioSrc, generatedAudioBlob, isProcessing, processingStep,
                   isExporting, error, uploads, requests, edits, fnVars>>

\* a guard that stores the audio's duration before it throws
handleSyncVideo_invalid_setsDuration ==
    /\ Browser
    /\ \E r \in pending :
        /\ r.kind = "handleSyncVideo"
        /\ r.pc = "probe"
        /\ \E aiAudioDuration \in {r.audio[1].dur, ProbeErrorDuration} :
            LET currentVideoDuration == CurrentVideoDuration(elDuration, r.duration)
                thrown == [r EXCEPT !.pc = "thrown",
                                    !.aiAudioDuration = aiAudioDuration,
                                    !.currentVideoDuration = currentVideoDuration]
            IN  /\ DurationsRejected(aiAudioDuration, currentVideoDuration)
                /\ duration' = aiAudioDuration
                /\ last' = Step("handleSyncVideo.invalid", 0, NaN, <<>>, thrown)
        /\ pending' = pending \ {r}
    /\ error' = <<"Could not calculate durations.">>
    /\ isProcessing' = FALSE
    /\ processingStep' = ""
    /\ UNCHANGED <<variant, videoFile, videoSrc, elDuration, subtitles, scriptText,
                   generatedAudioSrc, generatedAudioBlob, isExporting, uploads, requests,
                   edits, fnVars>>

\* line 316: throw new Error("Could not calculate durations.")
handleSyncVideo_invalid ==
    /\ Browser
    /\ \E r \in pending :
        /\ r.kind = "handleSyncVideo"
        /\ r.pc = "probe"
        /\ \E aiAudioDuration \in {r.audio[1].dur, ProbeErrorDuration} :
            LET currentVideoDuration == CurrentVideoDuration(elDuration, r.duration)
                thrown == [r EXCEPT !.pc = "thrown",
                                    !.aiAudioDuration = aiAudioDuration,
                                    !.currentVideoDuration = currentVideoDuration]
            IN  /\ DurationsRejected(aiAudioDuration, currentVideoDuration)
                /\ last' = Step("handleSyncVideo.invalid", 0, NaN, <<>>, thrown)
        /\ pending' = pending \ {r}
    /\ error' = <<"Could not calculate durations.">>
    /\ isProcessing' = FALSE
    /\ processingStep' = ""
    /\ UNCHANGED <<variant, videoFile, videoSrc, elDuration, duration, subtitles, scriptText,
                   generatedAudioSrc, generatedAudioBlob, isExporting, uploads, requests,
                   edits, fnVars>>

\* lines 331-347: the stretched file is read back and the four states are set; React
\* batches the four setters that follow the last await into one render
handleSyncVideo_resolved ==
    /\ Browser
    /\ \E r \in pending :
        /\ r.kind = "handleSyncVideo"
        /\ r.pc = "exec"
        /\ LET syncedVideoFile ==
                   [name |-> "synced_video.mp4", id |-> r.videoFile[1].id,
                    dur |-> Mul(r.videoFile[1].dur, r.stretchRatio)]
           IN  /\ videoFile' = <<syncedVideoFile>>
               /\ videoSrc' = <<syncedVideoFile>>
        /\ subtitles' = ScaleSubtitles(subtitles, r.stretchRatio)
        /\ duration' = r.aiAudioDuration
        /\ pending' = pending \ {r}
        /\ last' = Step("handleSyncVideo.resolved", 0, NaN, <<>>, r)
    /\ elDuration' = NaN
    /\ isProcessing' = FALSE
    /\ processingStep' = ""
    /\ UNCHANGED <<variant, scriptText, generatedAudioSrc, generatedAudioBlob, isExporting,
                   error, uploads, requests, edits, fnVars>>

\* a failure that is reported with the busy flag and the step label left as they are
handleSyncVideo_rejected_stillBusy ==
    /\ Browser
    /\ \E r \in pending :
        /\ r.kind = "handleSyncVideo"
        /\ pending' = pending \ {r}
        /\ last' = Step("handleSyncVideo.rejected", 0, NaN, <<>>, r)
    /\ error' = <<"Failed to load FFmpeg. Check your connection or security headers.">>
    /\ UNCHANGED <<variant, videoFile, videoSrc, elDuration, duration, subtitles, scriptText,
                   generatedAudioSrc, generatedAudioBlob, isProcessing, processingStep,
                   isExporting, uploads, requests, edits, fnVars>>

\* loadFFmpeg, fetch, writeFile, exec or readFile rejects
handleSyncVideo_rejected ==
    /\ Browser
    /\ \E r \in pending :
        /\ r.kind = "handleSyncVideo"
        /\ pending' = pending \ {r}
        /\ last' = Step("handleSyncVideo.rejected", 0, NaN, <<>>, r)
    /\ error' = <<"Failed to load FFmpeg. Check your connection or security headers.">>
    /\ isProcessing' = FALSE
    /\ processingStep' = ""
    /\ UNCHANGED <<variant, videoFile, videoSrc, elDuration, duration, subtitles, scriptText,
                   generatedAudioSrc, generatedAudioBlob, isExporting, uploads, requests,
                   edits, fnVars>>

\* line 362: nothing to export
handleExport_nothing ==
    /\ Browser
    /\ videoFile # Null
    /\ Idle
    /\ subtitles = <<>>
    /\ error' = <<"No subtitles to export.">>
    /\ last' = Step("handleExport.nothing", 0, NaN, <<>>, NoRequest)
    /\ UNCHANGED <<variant, videoFile, videoSrc, elDuration, duration, subtitles, scriptText,
                   generatedAudioSrc, generatedAudioBlob, isProcessing, processingStep,
                   isExporting, pending, uploads, requests, edits, fnVars>>

\* an export button that stays enabled while another operation runs
handleExport_whileBusy ==
    /\ Browser
    /\ videoFile # Null
    /\ ~isExporting
    /\ subtitles # <<>>
    /\ requests < MaxRequests
    /\ isExporting' = TRUE
    /\ error' = Null
    /\ pending' = pending \cup {NewRequest("handleExport", "exec", generatedAudioSrc)}
    /\ requests' = requests + 1
    /\ last' = Step("handleExport", 0, NaN, <<>>, NoRequest)
    /\ UNCHANGED <<variant, videoFile, videoSrc, elDuration, duration, subtitles, scriptText,
                   generatedAudioSrc, generatedAudioBlob, isProcessing, processingStep,
                   uploads, edits, fnVars>>

handleExport ==
    /\ Browser
    /\ videoFile # Null
    /\ Idle
    /\ subtitles # <<>>
    /\ requests < MaxRequests
    /\ isExporting' = TRUE
    /\ error' = Null
    /\ pending' = pending \cup {NewRequest("handleExport", "exec", generatedAudioSrc)}
    /\ requests' = requests + 1
    /\ last' = Step("handleExport", 0, NaN, <<>>, NoRequest)
    /\ UNCHANGED <<variant, videoFile, videoSrc, elDuration, duration, subtitles, scriptText,
                   generatedAudioSrc, generatedAudioBlob, isProcessing, processingStep,
                   uploads, edits, fnVars>>

handleExport_resolved ==
    /\ Browser
    /\ \E r \in pending :
        /\ r.kind = "handleExport"
        /\ pending' = pending \ {r}
        /\ last' = Step("handleExport.resolved", 0, NaN, <<>>, r)
    /\ isExporting' = FALSE
    /\ UNCHANGED <<variant, videoFile, videoSrc, elDuration, duration, subtitles, scriptText,
                   generatedAudioSrc, generatedAudioBlob, isProcessing, processingStep,
                   error, uploads, requests, edits, fnVars>>

handleExport_rejected ==
    /\ Browser
    /\ \E r \in pending :
        /\ r.kind = "handleExport"
        /\ pending' = pending \ {r}
        /\ last' = Step("handleExport.rejected", 0, NaN, <<>>, r)
    /\ error' = <<"Export failed: ">>
    /\ isExporting' = FALSE
    /\ UNCHANGED <<variant, videoFile, videoSrc, elDuration, duration, subtitles, scriptText,
                   generatedAudioSrc, generatedAudioBlob, isProcessing, processingStep,
                   uploads, requests, edits, fnVars>>

\* the textarea of a caption in the list
updateSubtitleText ==
    /\ Browser
    /\ edits < MaxEdits
    /\ \E i \in 1..Len(subtitles), text \in EditTexts :
        /\ subtitles' = SetTextById(subtitles, subtitles[i].id, text)
        /\ last' = Step("updateSubtitleText", i, NaN, text, NoRequest)
    /\ edits' = edits + 1
    /\ UNCHANGED <<variant, videoFile, videoSrc, elDuration, duration, scriptText,
                   generatedAudioSrc, generatedAudioBlob, isProcessing, processingStep,
                   isExporting, error, pending, uploads, requests, fnVars>>

(***************************************************************************)
(* Backend variant (src/unnamed/part_000): handlers                        *)
(***************************************************************************)
Backend ==
    variant = "backend"

\* the timelines the backend variant's parseSRT makes of the collaborator's answers
ParsedResponse_backend ==
    [srt \in SrtResponses |-> parseSRT_backend(srt)]

\* durations of the stretched videos the /sync endpoint returns
SyncedDurations ==
    {IntNum(15), IntNum(10)}

handleFileUpload_backend ==
    /\ Backend
    /\ uploads < MaxUploads
    /\ \E d \in UploadDurations :
        LET file == [name |-> "upload", id |-> uploads + 1, dur |-> d]
        IN  /\ error' = Null
            /\ videoFile' = <<file>>
            /\ videoSrc' = <<file>>
            /\ scriptText' = <<>>
            /\ subtitles' = <<>>
            /\ generatedAudioSrc' = Null
            /\ generatedAudioBlob' = Null
            /\ elDuration' = NaN
    /\ uploads' = uploads + 1
    /\ last' = Step("handleFileUpload", 0, NaN, <<>>, NoRequest)
    /\ UNCHANGED <<variant, duration, isProcessing, processingStep, isExporting, pending,
                   requests, edits, fnVars>>

onLoadedMetadata_backend ==
    /\ Backend
    /\ videoSrc # Null
    /\ isNaN(elDuration)
    /\ elDuration' = videoSrc[1].dur
    /\ duration' = IF Falsy(videoSrc[1].dur) THEN Zero ELSE videoSrc[1].dur
    /\ last' = Step("onLoadedMetadata", 0, NaN, <<>>, NoRequest)
    /\ UNCHANGED <<variant, videoFile, videoSrc, subtitles, scriptText, generatedAudioSrc,
                   generatedAudioBlob, isProcessing, processingStep, isExporting, error,
                   pending, uploads, requests, edits, fnVars>>

\* the script textarea: onChange={(e) => setScriptText(e.target.value)}
setScriptText ==
    /\ Backend
    /\ edits < MaxEdits
    /\ \E text \in EditTexts :
        /\ scriptText' = text
        /\ last' = Step("setScriptText", 0, NaN, text, NoRequest)
    /\ edits' = edits + 1
    /\ UNCHANGED <<variant, videoFile, videoSrc, elDuration, duration, subtitles,
                   generatedAudioSrc, generatedAudioBlob, isProcessing, processingStep,
                   isExporting, error, pending, uploads, requests, fnVars>>

handleTranscribe_backend ==
    /\ Backend
    /\ videoFile # Null
    /\ Idle
    /\ requests < MaxRequests
    /\ isProcessing' = TRUE
    /\ error' = Null
    /\ processingStep' = "Extracting & Transcribing on Server..."
    /\ pending' = pending \cup {NewRequest("handleTranscribe", "fetch", Null)}
    /\ requests' = requests + 1
    /\ last' = Step("handleTranscribe", 0, NaN, <<>>, NoRequest)
    /\ UNCHANGED <<variant, videoFile, videoSrc, elDuration, duration, subtitles, scriptText,
                   generatedAudioSrc, generatedAudioBlob, isExporting, uploads, edits, fnVars>>

handleTranscribe_backend_resolved ==
    /\ Backend
    /\ \E r \in pending :
        /\ r.kind = "handleTranscribe"
        /\ pending' = pending \ {r}
        /\ last' = Step("handleTranscribe.resolved", 0, NaN, <<>>, r)
    /\ scriptText' = SomeText
    /\ isProcessing' = FALSE
    /\ processingStep' = ""
    /\ UNCHANGED <<variant, videoFile, videoSrc, elDuration, duration, subtitles,
                   generatedAudioSrc, generatedAudioBlob, isExporting, error, uploads,
                   requests, edits, fnVars>>

handleTranscribe_backend_rejected ==
    /\ Backend
    /\ \E r \in pending :
        /\ r.kind = "handleTranscribe"
        /\ pending' = pending \ {r}
        /\ last' = Step("handleTranscribe.rejected", 0, NaN, <<>>, r)
    /\ error' = <<"Transcription failed">>
    /\ isProcessing' = FALSE
    /\ processingStep' = ""
    /\ UNCHANGED <<variant, videoFile, videoSrc, elDuration, duration, subtitles, scriptText,
                   generatedAudioSrc, generatedAudioBlob, isExporting, uploads, requests,
                   edits, fnVars>>

handleTranslate_backend ==
    /\ Backend
    /\ scriptText # <<>>
    /\ Idle
    /\ requests < MaxRequests
    /\ isProcessing' = TRUE
    /\ error' = Null
    /\ processingStep' = "Translating to Burmese..."
    /\ pending' = pending \cup {NewRequest("handleTranslate", "fetch", Null)}
    /\ requests' = requests + 1
    /\ last' = Step("handleTranslate", 0, NaN, <<>>, NoRequest)
    /\ UNCHANGED <<variant, videoFile, videoSrc, elDuration, duration, subtitles, scriptText,
                   generatedAudioSrc, generatedAudioBlob, isExporting, uploads, edits, fnVars>>

handleTranslate_backend_resolved ==
    /\ Backend
    /\ \E r \in pending :
        /\ r.kind = "handleTranslate"
        /\ pending' = pending \ {r}
        /\ last' = Step("handleTranslate.resolved", 0, NaN, <<>>, r)
    /\ scriptText' = SomeText
    /\ isProcessing' = FALSE
    /\ processingStep' = ""
    /\ UNCHANGED <<variant, videoFile, videoSrc, elDuration, duration, subtitles,
                   generatedAudioSrc, generatedAudioBlob, isExporting, error, uploads,
                   requests, edits, fnVars>>

handleTranslate_backend_rejected ==
    /\ Backend
    /\ \E r \in pending :
        /\ r.kind = "handleTranslate"
        /\ pending' = pending \ {r}
        /\ last' = Step("handleTranslate.rejected", 0, NaN, <<>>, r)
    /\ error' = <<"Translation failed">>
    /\ isProcessing' = FALSE
    /\ processingStep' = ""
    /\ UNCHANGED <<variant, videoFile, videoSrc, elDuration, duration, subtitles, scriptText,
                   generatedAudioSrc, generatedAudioBlob, isExporting, uploads, requests,
                   edits, fnVars>>

handleGenerateSpeech_backend ==
    /\ Backend
    /\ scriptText # <<>>
    /\ Idle
    /\ requests < MaxRequests
    /\ isProcessing' = TRUE
    /\ error' = Null
    /\ processingStep' = "Generating AI Voice..."
    /\ pending' = pending \cup {NewRequest("handleGenerateSpeech", "fetch", Null)}
    /\ requests' = requests + 1
    /\ last' = Step("handleGenerateSpeech", 0, NaN, <<>>, NoRequest)
    /\ UNCHANGED <<variant, videoFile, videoSrc, elDuration, duration, subtitles, scriptText,
                   generatedAudioSrc, generatedAudioBlob, isExporting, uploads, edits, fnVars>>

handleGenerateSpeech_backend_resolved ==
    /\ Backend
    /\ \E r \in pending :
        /\ r.kind = "handleGenerateSpeech"
        /\ pending' = pending \ {r}
        /\ last' = Step("handleGenerateSpeech.resolved", 0, NaN, <<>>, r)
    /\ \E d \in AudioDurations :
        /\ generatedAudioBlob' = <<[name |-> "tts", dur |-> d]>>
        /\ generatedAudioSrc' = <<[name |-> "tts", dur |-> d]>>
    /\ isProcessing' = FALSE
    /\ processingStep' = ""
    /\ UNCHANGED <<variant, videoFile, videoSrc, elDuration, duration, subtitles, scriptText,
                   isExporting, error, uploads, requests, edits, fnVars>>

handleGenerateSpeech_backend_rejected ==
    /\ Backend
    /\ \E r \in pending :
        /\ r.kind = "handleGenerateSpeech"
        /\ pending' = pending \ {r}
        /\ last' = Step("handleGenerateSpeech.rejected", 0, NaN, <<>>, r)
    /\ error' = <<"Backend failed to generate audio">>
    /\ isProcessing' = FALSE
    /\ processingStep' = ""
    /\ UNCHANGED <<variant, videoFile, videoSrc, elDuration, duration, subtitles, scriptText,
                   generatedAudioSrc, generatedAudioBlob, isExporting, uploads, requests,
                   edits, fnVars>>

\* line 215: the button needs audio only, the handler also needs the video
handleSyncVideo_backend_missing ==
    /\ Backend
    /\ generatedAudioSrc # Null
    /\ Idle
    /\ videoFile = Null \/ generatedAudioBlob = Null
    /\ error' = <<"Upload video and generate audio first.">>
    /\ last' = Step("handleSyncVideo.missing", 0, NaN, <<>>, NoRequest)
    /\ UNCHANGED <<variant, videoFile, videoSrc, elDuration, duration, subtitles, scriptText,
                   generatedAudioSrc, generatedAudioBlob, isProcessing, processingStep,
                   isExporting, pending, uploads, requests, edits, fnVars>>

handleSyncVideo_backend ==
    /\ Backend
    /\ generatedAudioSrc # Null
    /\ videoFile # Null
    /\ generatedAudioBlob # Null
    /\ Idle
    /\ requests < MaxRequests
    /\ isProcessing' = TRUE
    /\ error' = Null
    /\ processingStep' = "Stretching video on Server..."
    /\ pending' = pending \cup {NewRequest("handleSyncVideo", "fetch", generatedAudioBlob)}
    /\ requests' = requests + 1
    /\ last' = Step("handleSyncVideo", 0, NaN, <<>>, NoRequest)
    /\ UNCHANGED <<variant, videoFile, videoSrc, elDuration, duration, subtitles, scriptText,
                   generatedAudioSrc, generatedAudioBlob, isExporting, uploads, edits, fnVars>>

\* lines 222-226: the stretched video replaces the footage, the audio is dropped
handleSyncVideo_backend_resolved ==
    /\ Backend
    /\ \E r \in pending :
        /\ r.kind = "handleSyncVideo"
        /\ \E d \in SyncedDurations :
            LET syncedVideoFile ==
                    [name |-> "synced_video.mp4", id |-> r.videoFile[1].id, dur |-> d]
            IN  /\ videoFile' = <<syncedVideoFile>>
                /\ videoSrc' = <<syncedVideoFile>>
        /\ pending' = pending \ {r}
        /\ last' = Step("handleSyncVideo.resolved", 0, NaN, <<>>, r)
    /\ generatedAudioSrc' = Null
    /\ generatedAudioBlob' = Null
    /\ elDuration' = NaN
    /\ isProcessing' = FALSE
    /\ processingStep' = ""
    /\ UNCHANGED <<variant, duration, subtitles, scriptText, isExporting, error, uploads,
                   requests, edits, fnVars>>

handleSyncVideo_backend_rejected ==
    /\ Backend
    /\ \E r \in pending :
        /\ r.kind = "handleSyncVideo"
        /\ pending' = pending \ {r}
        /\ last' = Step("handleSyncVideo.rejected", 0, NaN, <<>>, r)
    /\ error' = <<"Sync failed">>
    /\ isProcessing' = FALSE
    /\ processingStep' = ""
    /\ UNCHANGED <<variant, videoFile, videoSrc, elDuration, duration, subtitles, scriptText,
                   generatedAudioSrc, generatedAudioBlob, isExporting, uploads, requests,
                   edits, fnVars>>

\* line 233: the button needs the script only, the handler also needs the video
handleGenerateSrt_missing ==
    /\ Backend
    /\ scriptText # <<>>
    /\ Idle
    /\ videoFile = Null
    /\ error' = <<"Upload video and transcribe/translate first.">>
    /\ last' = Step("handleGenerateSrt.missing", 0, NaN, <<>>, NoRequest)
    /\ UNCHANGED <<variant, videoFile, videoSrc, elDuration, duration, subtitles, scriptText,
                   generatedAudioSrc, generatedAudioBlob, isProcessing, processingStep,
                   isExporting, pending, uploads, requests, edits, fnVars>>

handleGenerateSrt ==
    /\ Backend
    /\ scriptText # <<>>
    /\ videoFile # Null
    /\ Idle
    /\ requests < MaxRequests
    /\ isProcessing' = TRUE
    /\ error' = Null
    /\ processingStep' = "Generating Subtitles with Gemini..."
    /\ pending' = pending \cup {NewRequest("handleGenerateSrt", "fetch", Null)}
    /\ requests' = requests + 1
    /\ last' = Step("handleGenerateSrt", 0, NaN, <<>>, NoRequest)
    /\ UNCHANGED <<variant, videoFile, videoSrc, elDuration, duration, subtitles, scriptText,
                   generatedAudioSrc, generatedAudioBlob, isExporting, uploads, edits, fnVars>>

\* lines 252-257: the answer is parsed and becomes the timeline
handleGenerateSrt_resolved ==
    /\ Backend
    /\ \E r \in pending :
        /\ r.kind = "handleGenerateSrt"
        /\ pending' = pending \ {r}
        /\ \E srt \in SrtResponses :
            /\ ~parseSRT_backend_throws(srt)
            /\ last' = Step("handleGenerateSrt.resolved", 0, NaN, srt, r)
            /\ subtitles' = ParsedResponse_backend[srt]
    /\ isProcessing' = FALSE
    /\ processingStep' = ""
    /\ UNCHANGED <<variant, videoFile, videoSrc, elDuration, duration, scriptText,
                   generatedAudioSrc, generatedAudioBlob, isExporting, error, uploads,
                   requests, edits, fnVars>>

\* a failure that throws the timeline away
handleGenerateSrt_rejected_clears ==
    /\ Backend
    /\ \E r \in pending :
        /\ r.kind = "handleGenerateSrt"
        /\ pending' = pending \ {r}
        /\ last' = Step("handleGenerateSrt.rejected", 0, NaN, <<>>, r)
    /\ error' = <<"Failed to generate SRT">>
    /\ subtitles' = <<>>
    /\ isProcessing' = FALSE
    /\ processingStep' = ""
    /\ UNCHANGED <<variant, videoFile, videoSrc, elDuration, duration, scriptText,
                   generatedAudioSrc, generatedAudioBlob, isExporting, uploads, requests,
                   edits, fnVars>>

handleGenerateSrt_rejected ==
    /\ Backend
    /\ \E r \in pending :
        /\ r.kind = "handleGenerateSrt"
        /\ pending' = pending \ {r}
        /\ last' = Step("handleGenerateSrt.rejected", 0, NaN, <<>>, r)
    /\ error' = <<"Failed to generate SRT">>
    /\ isProcessing' = FALSE
    /\ processingStep' = ""
    /\ UNCHANGED <<variant, videoFile, videoSrc, elDuration, duration, subtitles, scriptText,
                   generatedAudioSrc, generatedAudioBlob, isExporting, uploads, requests,
                   edits, fnVars>>

\* the start input of caption index: a number was typed
handleSubtitleShift ==
    /\ Backend
    /\ edits < MaxEdits
    /\ \E index \in 1..Len(subtitles), newStart \in TimeInputs :
        /\ subtitles' = ShiftSubtitles(subtitles, index, newStart)
        /\ last' = Step("handleSubtitleShift", index, newStart, <<>>, NoRequest)
    /\ edits' = edits + 1
    /\ UNCHANGED <<variant, videoFile, videoSrc, elDuration, duration, scriptText,
                   generatedAudioSrc, generatedAudioBlob, isProcessing, processingStep,
                   isExporting, error, pending, uploads, requests, fnVars>>

\* a NaN edit that is reported as an error
handleSubtitleEdit_NaN_reported ==
    /\ Backend
    /\ edits < MaxEdits
    /\ \E index \in 1..Len(subtitles), op \in {"handleSubtitleShift", "handleSubtitleEndChange"} :
        last' = Step(op, index, NaN, <<>>, NoRequest)
    /\ edits' = edits + 1
    /\ error' = <<"Invalid time">>
    /\ UNCHANGED <<variant, videoFile, videoSrc, elDuration, duration, subtitles, scriptText,
                   generatedAudioSrc, generatedAudioBlob, isProcessing, processingStep,
                   isExporting, pending, uploads, requests, fnVars>>

\* the start or end input of caption index was emptied: parseFloat gives NaN, and
\* handleSubtitleShift and handleSubtitleEndChange return at once
handleSubtitleEdit_NaN ==
    /\ Backend
    /\ edits < MaxEdits
    /\ \E index \in 1..Len(subtitles), op \in {"handleSubtitleShift", "handleSubtitleEndChange"} :
        last' = Step(op, index, NaN, <<>>, NoRequest)
    /\ edits' = edits + 1
    /\ UNCHANGED <<variant, videoFile, videoSrc, elDuration, duration, subtitles, scriptText,
                   generatedAudioSrc, generatedAudioBlob, isProcessing, processingStep,
                   isExporting, error, pending, uploads, requests, fnVars>>

handleSubtitleEndChange ==
    /\ Backend
    /\ edits < MaxEdits
    /\ \E index \in 1..Len(subtitles), newEnd \in TimeInputs :
        /\ subtitles' = SetSubtitleEnd(subtitles, index, newEnd)
        /\ last' = Step("handleSubtitleEndChange", index, newEnd, <<>>, NoRequest)
    /\ edits' = edits + 1
    /\ UNCHANGED <<variant, videoFile, videoSrc, elDuration, duration, scriptText,
                   generatedAudioSrc, generatedAudioBlob, isProcessing, processingStep,
                   isExporting, error, pending, uploads, requests, fnVars>>

handleSubtitleTextChange ==
    /\ Backend
    /\ edits < MaxEdits
    /\ \E index \in 1..Len(subtitles), newText \in EditTexts :
        /\ subtitles' = SetSubtitleText(subtitles, index, newText)
        /\ last' = Step("handleSubtitleTextChange", index, NaN, newText, NoRequest)
    /\ edits' = edits + 1
    /\ UNCHANGED <<variant, videoFile, videoSrc, elDuration, duration, scriptText,
                   generatedAudioSrc, generatedAudioBlob, isProcessing, processingStep,
                   isExporting, error, pending, uploads, requests, fnVars>>

\* the button is disabled without video or captions, and while audio awaits its sync
handleExport_backend ==
    /\ Backend
    /\ videoFile # Null
    /\ subtitles # <<>>
    /\ generatedAudioSrc = Null
    /\ Idle
    /\ requests < MaxRequests
    /\ isExporting' = TRUE
    /\ error' = Null
    /\ processingStep' = "Burning subtitles on Server..."
    /\ pending' = pending \cup {NewRequest("handleExport", "fetch", Null)}
    /\ requests' = requests + 1
    /\ last' = Step("handleExport", 0, NaN, <<>>, NoRequest)
    /\ UNCHANGED <<variant, videoFile, videoSrc, elDuration, duration, subtitles, scriptText,
                   generatedAudioSrc, generatedAudioBlob, isProcessing, uploads, edits,
                   fnVars>>

handleExport_backend_resolved ==
    /\ Backend
    /\ \E r \in pending :
        /\ r.kind = "handleExport"
        /\ pending' = pending \ {r}
        /\ last' = Step("handleExport.resolved", 0, NaN, <<>>, r)
    /\ isExporting' = FALSE
    /\ processingStep' = ""
    /\ UNCHANGED <<variant, videoFile, videoSrc, elDuration, duration, subtitles, scriptText,
                   generatedAudioSrc, generatedAudioBlob, isProcessing, error, uploads,
                   requests, edits, fnVars>>

handleExport_backend_rejected ==
    /\ Backend
    /\ \E r \in pending :
        /\ r.kind = "handleExport"
        /\ pending' = pending \ {r}
        /\ last' = Step("handleExport.rejected", 0, NaN, <<>>, r)
    /\ error' = <<"Export failed: Subtitling failed">>
    /\ isExporting' = FALSE
    /\ processingStep' = ""
    /\ UNCHANGED <<variant, videoFile, videoSrc, elDuration, duration, subtitles, scriptText,
                   generatedAudioSrc, generatedAudioBlob, isProcessing, uploads, requests,
                   edits, fnVars>>

(***************************************************************************)
(* The editing session: specification                                      *)
(***************************************************************************)
Next ==
    \/ handleFileUpload
    \/ onLoadedMetadata
    \/ handleTranscribe
    \/ handleTranscribe_extracted
    \/ handleTranscribe_resolved
    \/ handleTranscribe_rejected
    \/ handleTranslate
    \/ handleTranslate_resolved
    \/ handleTranslate_rejected
    \/ handleGenerateSpeech
    \/ handleGenerateSpeech_resolved
    \/ handleGenerateSpeech_rejected
    \/ handleSyncVideo
    \/ handleSyncVideo_durations
    \/ handleSyncVideo_invalid
    \/ handleSyncVideo_resolved
    \/ handleSyncVideo_rejected
    \/ handleExport_nothing
    \/ handleExport
    \/ handleExport_resolved
    \/ handleExport_rejected
    \/ updateSubtitleText
    \/ handleFileUpload_backend
    \/ onLoadedMetadata_backend
    \/ setScriptText
    \/ handleTranscribe_backend
    \/ handleTranscribe_backend_resolved
    \/ handleTranscribe_backend_rejected
    \/ handleTranslate_backend
    \/ handleTranslate_backend_resolved
    \/ handleTranslate_backend_rejected
    \/ handleGenerateSpeech_backend
    \/ handleGenerateSpeech_backend_resolved
    \/ handleGenerateSpeech_backend_rejected
    \/ handleSyncVideo_backend_missing
    \/ handleSyncVideo_backend
    \/ handleSyncVideo_backend_resolved
    \/ handleSyncVideo_backend_rejected
    \/ handleGenerateSrt_missing
    \/ handleGenerateSrt
    \/ handleGenerateSrt_resolved
    \/ handleGenerateSrt_rejected
    \/ handleSubtitleShift
    \/ handleSubtitleEdit_NaN
    \/ handleSubtitleEndChange
    \/ handleSubtitleTextChange
    \/ handleExport_backend
    \/ handleExport_backend_resolved
    \/ handleExport_backend_rejected

Spec ==
    Init /\ [][Next]_vars

(***************************************************************************)
(* The codec, the parsers, the serializers and the sync guard on their own *)
(***************************************************************************)
MaxEntries ==
    2

MaxBlocks ==
    3

\* caption timings, in whole milliseconds
EntryTimings ==
    {<<IntNum(1), IntNum(3)>>, <<Num(7, 2), IntNum(6)>>}

\* caption texts of the backend variant: empty, one line, two lines
BackendTexts ==
    {<<>>, <<"H", "i">>, <<"A", "\n", "B">>}

\* caption texts of the in-browser variant: plain, purely numeric, ending in a number
BrowserTexts ==
    {<<"H", "i">>, <<"4", "2">>, <<"N", "o", " ", "2">>}

\* SubtitleItem[] of at most MaxEntries entries, numbered from 1
BackendTimelines ==
    UNION {[1..n -> [start : {t[1] : t \in EntryTimings}, end : {t[2] : t \in EntryTimings},
                     text : BackendTexts]] : n \in 0..MaxEntries}

WithIds(entries) ==
    [i \in 1..Len(entries) |->
        [id |-> i, start |-> entries[i].start, end |-> entries[i].end,
         text |-> entries[i].text]]

\* Subtitle[] of at most MaxEntries entries, as parseSRT numbers and places them
AsSubtitles(entries) ==
    [i \in 1..Len(entries) |->
        [id |-> i, startTime |-> entries[i].start, endTime |-> entries[i].end,
         text |-> entries[i].text, x |-> 50]]

BrowserTimelines ==
    UNION {[1..n -> [start : {t[1] : t \in EntryTimings}, end : {t[2] : t \in EntryTimings},
                     text : BrowserTexts]] : n \in 0..MaxEntries}

\* the blocks SRT documents are made of: two timed ones and one without a timing line
SrtBlocks ==
    {[timed |-> TRUE, start |-> IntNum(1), end |-> IntNum(3),
      text |-> <<"H", "e", "l", "l", "o">>],
     [timed |-> TRUE, start |-> Num(7, 2), end |-> IntNum(6),
      text |-> <<"W", "o", "r", "l", "d">>],
     [timed |-> FALSE, start |-> Zero, end |-> Zero,
      text |-> <<"S", "t", "r", "a", "y">>]}

BlockSequences ==
    UNION {[1..n -> SrtBlocks] : n \in 1..MaxBlocks}

\* the text of block number i
BlockText(block, i) ==
    NatToStr(i) \o NL
      \o (IF block.timed
          THEN secondsToSrtTime(block.start) \o SpacedArrow \o secondsToSrtTime(block.end)
          ELSE <<"n", "o", "t", "a", "t", "i", "m", "e">>)
      \o NL \o block.text

\* the document of the blocks, a blank line between them
BlocksDocument(blocks) ==
    Join([i \in 1..Len(blocks) |-> BlockText(blocks[i], i)], NL \o NL) \o NL

\* the document of timed blocks whose index line is a number, is missing or is a
\* word; a block is a record [index, start, end, text]
IndexBlocksDocument(blocks) ==
    Join([i \in 1..Len(blocks) |->
            (CASE blocks[i].index = "number" -> NatToStr(i) \o NL
               [] blocks[i].index = "word"   -> <<"x">> \o NL
               [] OTHER                      -> <<>>)
              \o secondsToSrtTime(blocks[i].start) \o SpacedArrow
              \o secondsToSrtTime(blocks[i].end) \o NL \o blocks[i].text],
         NL \o NL) \o NL

\* durations handed to the sync guard: none, zero, negative, positive
GuardDurations ==
    {NaN, Zero, IntNum(-1), IntNum(10), IntNum(15)}

\* a lookup that asks for one of the two bounds only
activeSubtitle_eitherBound(subs, currentTime) ==
    LET hits == {i \in 1..Len(subs) :
                    Le(subs[i].start, currentTime) \/ Le(currentTime, subs[i].end)}
    IN  IF hits = {} THEN <<>> ELSE <<subs[SetMin(hits)]>>

\* subtitles.find(s => currentTime >= s.start && currentTime <= s.end), as the list
\* of the entry found, empty for undefined
activeSubtitle(subs, currentTime) ==
    LET hits == {i \in 1..Len(subs) :
                    Le(subs[i].start, currentTime) /\ Le(currentTime, subs[i].end)}
    IN  IF hits = {} THEN <<>> ELSE <<subs[SetMin(hits)]>>

\* the Subtitles Overlay of src/src/App.tsx: subtitles.map renders every entry but
\* those with currentTime < sub.startTime || currentTime > sub.endTime
SubtitlesOverlay(subs, currentTime) ==
    SelectSeq(subs, LAMBDA sub : ~(Lt(currentTime, sub.startTime) \/ Lt(sub.endTime, currentTime)))

\* positive durations of footage and of generated audio, in seconds
RescaleDurations ==
    {Num(1, 10), IntNum(4), IntNum(10), IntNum(15)}

\* the field entries holds the argument: a timeline, the blocks of a document, or
\* the one-element list of a number of seconds, of a timecode, or of a timeline with
\* a playback time
FnInput(kind, entries, aiAudioDuration, currentVideoDuration) ==
    [kind |-> kind, entries |-> entries, aiAudioDuration |-> aiAudioDuration,
     currentVideoDuration |-> currentVideoDuration]

FnInputs ==
    {FnInput("SubtitleItem[]", t, NaN, NaN) : t \in BackendTimelines}
      \cup {FnInput("Subtitle[]", t, NaN, NaN) : t \in BrowserTimelines}
      \cup {FnInput("blocks", b, NaN, NaN) : b \in BlockSequences}
      \cup {FnInput("indexBlocks", b, NaN, NaN) :
                b \in UNION {[1..n -> [index : {"number", "none", "word"},
                                       start : {IntNum(1)}, end : {IntNum(3)},
                                       text : {<<"H", "e", "l", "l", "o">>}]] :
                             n \in 1..MaxEntries}}
      \cup {FnInput("durations", <<>>, a, c) : a \in GuardDurations, c \in GuardDurations}
      \cup {FnInput("seconds", <<x>>, NaN, NaN) :
                x \in {Zero, Num(3, 2), Num(19996, 10000), Num(599996, 10000),
                       Num(7323, 2), IntNum(90000)}}
      \cup {FnInput("timecode", <<[text |-> c, valid |-> FALSE]>>, NaN, NaN) :
                c \in {<<>>, <<"g", "a", "r", "b", "a", "g", "e">>,
                       <<"a", ":", "b", ":", "c">>, <<"1", ":", "2", ":", "3", ":", "4">>}}
      \cup {FnInput("timecode", <<[text |-> c, valid |-> TRUE]>>, NaN, NaN) :
                c \in {secondsToSrtTime(Num(7323, 2)), secondsToSrtTime(IntNum(1))}}
      \cup {FnInput("lookup", <<[subtitles |-> t, currentTime |-> IntNum(c)]>>, NaN, NaN) :
                t \in UNION {[1..n -> {[start |-> IntNum(1), end |-> IntNum(3),
                                        text |-> <<"H", "e", "l", "l", "o">>],
                                       [start |-> IntNum(3), end |-> IntNum(6),
                                        text |-> <<"W", "o", "r", "l", "d">>],
                                       [start |-> IntNum(5), end |-> IntNum(2),
                                        text |-> <<"N", "o">>],
                                       [start |-> IntNum(7), end |-> IntNum(7),
                                        text |-> <<"O", "k">>]}] :
                             n \in 0..MaxEntries},
                c \in 0..7}
      \cup {FnInput("shift", <<[subtitles |-> WithIds(t), index |-> i, newStart |-> v]>>,
                    NaN, NaN) :
                t \in UNION {[1..n -> {[start |-> IntNum(1), end |-> IntNum(3),
                                        text |-> <<"H", "e", "l", "l", "o">>],
                                       [start |-> Num(7, 2), end |-> IntNum(6),
                                        text |-> <<"W", "o", "r", "l", "d">>]}] :
                             n \in 1..MaxEntries},
                i \in 1..MaxEntries, v \in TimeInputs}
      \cup {FnInput("rescale", <<[subtitles |-> AsSubtitles(t)]>>, b, a) :
                t \in UNION {[1..n -> {[start |-> IntNum(1), end |-> IntNum(3),
                                        text |-> <<"H", "e", "l", "l", "o">>],
                                       [start |-> Num(7, 2), end |-> IntNum(6),
                                        text |-> <<"W", "o", "r", "l", "d">>]}] :
                             n \in 0..MaxEntries},
                a \in RescaleDurations, b \in RescaleDurations}

FnOutput(op, srt, parsed, rejected, stretchRatio) ==
    <<[op |-> op, srt |-> srt, parsed |-> parsed, rejected |-> rejected,
       stretchRatio |-> stretchRatio]>>

InitFn ==
    /\ variant \in {"browser", "backend"}
    /\ Mounted
    /\ fnIn \in FnInputs
    /\ fnOut = Null

\* parseSRT(stringifySRT(T)) of the backend variant
stringifySRT_parseSRT ==
    /\ variant = "backend"
    /\ fnOut = Null
    /\ fnIn.kind = "SubtitleItem[]"
    /\ LET srt == stringifySRT(WithIds(fnIn.entries))
       IN  /\ ~parseSRT_backend_throws(srt)
           /\ fnOut' = FnOutput("stringifySRT_parseSRT", srt, parseSRT_backend(srt), FALSE, NaN)
    /\ UNCHANGED <<fnIn, variant, videoFile, videoSrc, elDuration, duration, subtitles,
                   scriptText, generatedAudioSrc, generatedAudioBlob, isProcessing,
                   processingStep, isExporting, error, pending, last, uploads, requests,
                   edits>>

\* parseSRT(generateSRT(T)) of the in-browser variant
generateSRT_parseSRT ==
    /\ variant = "browser"
    /\ fnOut = Null
    /\ fnIn.kind = "Subtitle[]"
    /\ LET srt == generateSRT(AsSubtitles(fnIn.entries))
       IN  fnOut' = FnOutput("generateSRT_parseSRT", srt, parseSRT(srt), FALSE, NaN)
    /\ UNCHANGED <<fnIn, variant, videoFile, videoSrc, elDuration, duration, subtitles,
                   scriptText, generatedAudioSrc, generatedAudioBlob, isProcessing,
                   processingStep, isExporting, error, pending, last, uploads, requests,
                   edits>>

\* parseSRT of the backend variant on a document
parseSRT_backend_document ==
    /\ variant = "backend"
    /\ fnOut = Null
    /\ fnIn.kind \in {"blocks", "indexBlocks"}
    /\ LET srt == IF fnIn.kind = "blocks" THEN BlocksDocument(fnIn.entries)
                  ELSE IndexBlocksDocument(fnIn.entries)
       IN  /\ ~parseSRT_backend_throws(srt)
           /\ fnOut' = FnOutput("parseSRT", srt, parseSRT_backend(srt), FALSE, NaN)
    /\ UNCHANGED <<fnIn, variant, videoFile, videoSrc, elDuration, duration, subtitles,
                   scriptText, generatedAudioSrc, generatedAudioBlob, isProcessing,
                   processingStep, isExporting, error, pending, last, uploads, requests,
                   edits>>

\* parseSRT of the in-browser variant on a document
parseSRT_document ==
    /\ variant = "browser"
    /\ fnOut = Null
    /\ fnIn.kind \in {"blocks", "indexBlocks"}
    /\ LET srt == IF fnIn.kind = "blocks" THEN BlocksDocument(fnIn.entries)
                  ELSE IndexBlocksDocument(fnIn.entries)
       IN  fnOut' = FnOutput("parseSRT", srt, parseSRT(srt), FALSE, NaN)
    /\ UNCHANGED <<fnIn, variant, videoFile, videoSrc, elDuration, duration, subtitles,
                   scriptText, generatedAudioSrc, generatedAudioBlob, isProcessing,
                   processingStep, isExporting, error, pending, last, uploads, requests,
                   edits>>

\* lines 316-319 of src/src/App.tsx: the guard and the ratio of handleSyncVideo
handleSyncVideo_guard ==
    /\ variant = "browser"
    /\ fnOut = Null
    /\ fnIn.kind = "durations"
    /\ fnOut' = FnOutput("handleSyncVideo", <<>>, <<>>,
                         DurationsRejected(fnIn.aiAudioDuration, fnIn.currentVideoDuration),
                         StretchRatio(fnIn.aiAudioDuration, fnIn.currentVideoDuration))
    /\ UNCHANGED <<fnIn, variant, videoFile, videoSrc, elDuration, duration, subtitles,
                   scriptText, generatedAudioSrc, generatedAudioBlob, isProcessing,
                   processingStep, isExporting, error, pending, last, uploads, requests,
                   edits>>

\* lines 319-344 of src/src/App.tsx twice: the timeline rescaled from the video's
\* duration to the audio's, and the result rescaled from the audio's to the video's
handleSyncVideo_thereAndBack ==
    /\ variant = "browser"
    /\ fnOut = Null
    /\ fnIn.kind = "rescale"
    /\ LET there == StretchRatio(fnIn.aiAudioDuration, fnIn.currentVideoDuration)
           back  == StretchRatio(fnIn.currentVideoDuration, fnIn.aiAudioDuration)
       IN  fnOut' = FnOutput("rescale", <<>>,
                             ScaleSubtitles(ScaleSubtitles(fnIn.entries[1].subtitles, there),
                                            back),
                             FALSE, there)
    /\ UNCHANGED <<fnIn, variant, videoFile, videoSrc, elDuration, duration, subtitles,
                   scriptText, generatedAudioSrc, generatedAudioBlob, isProcessing,
                   processingStep, isExporting, error, pending, last, uploads, requests,
                   edits>>

\* lines 270-283 of src/unnamed/part_000 run once and run twice: the updater writes
\* into the entry objects of prev, so its second run starts from what the first left
handleSubtitleShift_twice ==
    /\ variant = "backend"
    /\ fnOut = Null
    /\ fnIn.kind = "shift"
    /\ fnIn.entries[1].index <= Len(fnIn.entries[1].subtitles)
    /\ LET once == ShiftSubtitles(fnIn.entries[1].subtitles, fnIn.entries[1].index,
                                  fnIn.entries[1].newStart)
       IN  fnOut' = FnOutput("shift", <<>>,
                             <<[once  |-> once,
                                twice |-> ShiftSubtitles(once, fnIn.entries[1].index,
                                                         fnIn.entries[1].newStart)]>>,
                             FALSE, NaN)
    /\ UNCHANGED <<fnIn, variant, videoFile, videoSrc, elDuration, duration, subtitles,
                   scriptText, generatedAudioSrc, generatedAudioBlob, isProcessing,
                   processingStep, isExporting, error, pending, last, uploads, requests,
                   edits>>

\* the formatter of the variant on a number of seconds
formatTimecode ==
    /\ fnOut = Null
    /\ fnIn.kind = "seconds"
    /\ fnOut' = FnOutput("format",
                         IF variant = "backend" THEN secondsToSrtTime(fnIn.entries[1])
                         ELSE formatSRTTime(fnIn.entries[1]),
                         <<>>, FALSE, NaN)
    /\ UNCHANGED <<fnIn, variant, videoFile, videoSrc, elDuration, duration, subtitles,
                   scriptText, generatedAudioSrc, generatedAudioBlob, isProcessing,
                   processingStep, isExporting, error, pending, last, uploads, requests,
                   edits>>

\* the timecode parser of the variant on a string
parseTimecode ==
    /\ fnOut = Null
    /\ fnIn.kind = "timecode"
    /\ fnOut' = FnOutput("parse", fnIn.entries[1].text,
                         IF variant = "backend" THEN srtTimeToSeconds(fnIn.entries[1].text)
                         ELSE parseTime(fnIn.entries[1].text),
                         FALSE, NaN)
    /\ UNCHANGED <<fnIn, variant, videoFile, videoSrc, elDuration, duration, subtitles,
                   scriptText, generatedAudioSrc, generatedAudioBlob, isProcessing,
                   processingStep, isExporting, error, pending, last, uploads, requests,
                   edits>>

\* the entries the variant shows at a playback time
activeEntries ==
    /\ fnOut = Null
    /\ fnIn.kind = "lookup"
    /\ fnOut' = FnOutput("lookup", <<>>,
                         IF variant = "backend"
                         THEN activeSubtitle(WithIds(fnIn.entries[1].subtitles),
                                             fnIn.entries[1].currentTime)
                         ELSE SubtitlesOverlay(AsSubtitles(fnIn.entries[1].subtitles),
                                               fnIn.entries[1].currentTime),
                         FALSE, NaN)
    /\ UNCHANGED <<fnIn, variant, videoFile, videoSrc, elDuration, duration, subtitles,
                   scriptText, generatedAudioSrc, generatedAudioBlob, isProcessing,
                   processingStep, isExporting, error, pending, last, uploads, requests,
                   edits>>

NextFn ==
    \/ stringifySRT_parseSRT
    \/ generateSRT_parseSRT
    \/ parseSRT_backend_document
    \/ parseSRT_document
    \/ handleSyncVideo_guard
    \/ formatTimecode
    \/ parseTimecode
    \/ activeEntries
    \/ handleSyncVideo_thereAndBack
    \/ handleSubtitleShift_twice

SpecFn ==
    InitFn /\ [][NextFn]_vars

(***************************************************************************)
(* Properties of the editing session                                       *)
(***************************************************************************)
\* C1: a ripple shift at index i by delta = newStart - start_i leaves every entry
\* before i as it was and, where no clamping triggers, adds delta to the start and
\* to the end of entry i and of every later entry.
C1_RippleShift ==
    (last.op = "handleSubtitleShift" /\ ~isNaN(last.value)) =>
        LET old   == last.prev.subtitles
            i     == last.index
            delta == Sub(last.value, old[i].start)
        IN  /\ Len(subtitles) = Len(old)
            /\ \A j \in 1..Len(old) :
                IF j < i THEN subtitles[j] = old[j]
                ELSE /\ ~Lt(Add(old[j].start, delta), Zero)
                            => subtitles[j].start = Add(old[j].start, delta)
                     /\ ~Lt(Add(old[j].end, delta), Zero)
                            => subtitles[j].end = Add(old[j].end, delta)
                     /\ subtitles[j].text = old[j].text
                     /\ subtitles[j].id = old[j].id

\* a shift of the first of two entries by a delta that is not zero has happened
C1_Witness ==
    /\ last.op = "handleSubtitleShift"
    /\ last.index = 1
    /\ last.value = Num(5, 2)
    /\ Len(subtitles) = 2
    /\ subtitles[2].start = Add(last.prev.subtitles[2].start, Num(3, 2))
    /\ subtitles[2].end = Add(last.prev.subtitles[2].end, Num(3, 2))

\* C2: a successful synchronization of the in-browser variant multiplies every
\* entry's start and end by ratio = AI audio duration / current video duration and
\* keeps the number and the order of the entries.
C2_SyncRescales ==
    (variant = "browser" /\ last.op = "handleSyncVideo.resolved") =>
        LET old   == last.prev.subtitles
            ratio == Div(last.req.aiAudioDuration, last.req.currentVideoDuration)
        IN  /\ Len(subtitles) = Len(old)
            /\ \A j \in 1..Len(old) :
                /\ subtitles[j].startTime = Mul(old[j].startTime, ratio)
                /\ subtitles[j].endTime = Mul(old[j].endTime, ratio)
                /\ subtitles[j].text = old[j].text
                /\ subtitles[j].id = old[j].id

\* two entries were rescaled by a ratio other than one
C2_Witness ==
    /\ variant = "browser"
    /\ last.op = "handleSyncVideo.resolved"
    /\ Len(subtitles) = 2
    /\ last.req.aiAudioDuration = IntNum(15)
    /\ last.req.currentVideoDuration = IntNum(10)
    /\ subtitles[2].startTime = Num(21, 4)
    /\ subtitles[2].endTime = IntNum(9)

\* the steps of handleSyncVideo that are not its success
FailingSyncSteps ==
    {"handleSyncVideo", "handleSyncVideo.durations", "handleSyncVideo.invalid",
     "handleSyncVideo.rejected", "handleSyncVideo.missing"}

\* C4: a synchronization that fails, on its durations or on the call that makes
\* the stretched footage, changes neither the timeline nor the video file, its
\* source or the stored duration; it ends with an error message and the busy flag
\* lowered.
C4_FailedSyncChangesNothing ==
    /\ last.op \in FailingSyncSteps =>
        /\ subtitles = last.prev.subtitles
        /\ videoFile = last.prev.videoFile
        /\ videoSrc = last.prev.videoSrc
        /\ duration = last.prev.duration
    /\ last.op \in {"handleSyncVideo.invalid", "handleSyncVideo.rejected"} =>
        /\ error # Null
        /\ ~isProcessing

\* the guard threw on a timeline that holds captions
C4_Witness ==
    /\ last.op = "handleSyncVideo.invalid"
    /\ error = <<"Could not calculate durations.">>
    /\ subtitles # <<>>
    /\ videoFile # Null

\* the steps that put a collaborator's answer into the session
ResponseSteps ==
    {"handleTranscribe.resolved", "handleTranslate.resolved", "handleGenerateSpeech.resolved",
     "handleSyncVideo.resolved", "handleGenerateSrt.resolved"}

\* C5: an answer replaces the timeline or the footage only of the upload its request
\* was made for; an answer to a request issued before a newer upload is discarded.
C5_StaleResponseDiscarded ==
    (/\ last.op \in ResponseSteps
     /\ last.req.videoFile # Null
     /\ subtitles # last.prev.subtitles \/ videoFile # last.prev.videoFile) =>
        /\ last.prev.videoFile # Null
        /\ last.req.videoFile[1].id = last.prev.videoFile[1].id

\* C6: a render sees a ripple shift on all of the entries index..last or on none,
\* a synchronization on all entries or on none, and the footage, the duration and
\* the timeline of a synchronization replaced together or not at all.
C6_AtomicReplacement ==
    /\ (last.op = "handleSubtitleShift" /\ ~isNaN(last.value)) =>
        LET old   == last.prev.subtitles
            i     == last.index
            delta == Sub(last.value, old[i].start)
            moved(j) ==
                /\ subtitles[j].start = ClampNegative(Add(old[j].start, delta))
                /\ subtitles[j].end = ClampNegative(Add(old[j].end, delta))
        IN  /\ Len(subtitles) = Len(old)
            /\ \/ \A j \in i..Len(old) : moved(j)
               \/ \A j \in i..Len(old) : subtitles[j] = old[j]
    /\ (variant = "browser" /\ last.req.kind = "handleSyncVideo") =>
        LET old   == last.prev.subtitles
            ratio == Div(last.req.aiAudioDuration, last.req.currentVideoDuration)
            scaled(j) ==
                /\ subtitles[j].startTime = Mul(old[j].startTime, ratio)
                /\ subtitles[j].endTime = Mul(old[j].endTime, ratio)
        IN  /\ Len(subtitles) = Len(old)
            /\ IF last.op = "handleSyncVideo.resolved"
               THEN /\ \A j \in 1..Len(old) : scaled(j)
                    /\ videoFile # Null
                    /\ videoFile[1].name = "synced_video.mp4"
                    /\ videoSrc = videoFile
                    /\ duration = last.req.aiAudioDuration
               ELSE /\ subtitles = old
                    /\ videoFile = last.prev.videoFile
                    /\ videoSrc = last.prev.videoSrc
                    /\ duration = last.prev.duration

\* a synchronization replaced the footage, the duration and a timeline of two
\* entries in its one step
C6_Witness ==
    /\ variant = "browser"
    /\ last.op = "handleSyncVideo.resolved"
    /\ Len(subtitles) = 2
    /\ subtitles[1] # last.prev.subtitles[1]
    /\ subtitles[2] # last.prev.subtitles[2]
    /\ videoFile # last.prev.videoFile
    /\ duration # last.prev.duration

\* C7: a successful synchronization of the backend variant that changes the
\* video's duration rescales the start and the end of every entry by the ratio of
\* the new duration to the old.
C7_BackendSyncRescales ==
    (/\ variant = "backend"
     /\ last.op = "handleSyncVideo.resolved"
     /\ videoFile[1].dur # last.prev.videoFile[1].dur) =>
        LET old   == last.prev.subtitles
            ratio == Div(videoFile[1].dur, last.prev.videoFile[1].dur)
        IN  /\ Len(subtitles) = Len(old)
            /\ \A j \in 1..Len(old) :
                /\ subtitles[j].start = Mul(old[j].start, ratio)
                /\ subtitles[j].end = Mul(old[j].end, ratio)

BackendShape(entries) ==
    [i \in 1..Len(entries) |->
        [start |-> entries[i].start, end |-> entries[i].end, text |-> entries[i].text]]

\* the start, the end and the text of each entry of a browser timeline
BrowserShape(entries) ==
    [i \in 1..Len(entries) |->
        [start |-> entries[i].startTime, end |-> entries[i].endTime,
         text |-> entries[i].text]]

StartsBeforeEnds(entries) ==
    \A i \in 1..Len(entries) : Lt(entries[i].start, entries[i].end)

\* C8: in the backend variant parseSRT(stringifySRT(T)) has as many entries as T
\* and the start, end and text of T at each position, for every T with start < end,
\* empty and multi-line texts included.
C8_BackendRoundTrip ==
    (/\ fnOut # Null
     /\ fnIn.kind = "SubtitleItem[]"
     /\ StartsBeforeEnds(fnIn.entries)) =>
        BackendShape(fnOut[1].parsed) = fnIn.entries

\* C9: in the in-browser variant parseSRT(generateSRT(T)) has as many entries as T
\* and the start, end and text of T at each position, for every T with start < end,
\* purely numeric texts and texts that end in a number included.
C9_BrowserRoundTrip ==
    (/\ fnOut # Null
     /\ fnIn.kind = "Subtitle[]"
     /\ StartsBeforeEnds(fnIn.entries)) =>
        BrowserShape(fnOut[1].parsed) = fnIn.entries

\* the entries of the timed blocks, in their order
TimedEntries(blocks) ==
    LET timed == SelectSeq(blocks, LAMBDA b : b.timed)
    IN  [i \in 1..Len(timed) |->
            [start |-> timed[i].start, end |-> timed[i].end, text |-> timed[i].text]]

\* C10: either parser drops a block without a '-->' line whole: the result holds
\* the entries of the other blocks and nothing else, no text of theirs has grown.
C10_UntimedBlockDropped ==
    (fnOut # Null /\ fnIn.kind = "blocks") =>
        IF variant = "browser"
        THEN BrowserShape(fnOut[1].parsed) = TimedEntries(fnIn.entries)
        ELSE BackendShape(fnOut[1].parsed) = TimedEntries(fnIn.entries)

\* C11: the index line of a block is optional in both parsers: a block of a timing
\* line and a text line yields its entry whether its index line is there or not,
\* and the backend parser numbers an entry whose index is missing or is no number
\* with the count of the entries before it plus one.
C11_IndexLineOptional ==
    (/\ fnOut # Null
     /\ fnIn.kind = "indexBlocks"
     /\ variant = "browser" => \A i \in 1..Len(fnIn.entries) : fnIn.entries[i].index # "word") =>
        LET blocks == fnIn.entries
            parsed == fnOut[1].parsed
        IN  /\ Len(parsed) = Len(blocks)
            /\ \A i \in 1..Len(blocks) :
                /\ parsed[i].text = blocks[i].text
                /\ IF variant = "browser"
                   THEN parsed[i].startTime = blocks[i].start
                            /\ parsed[i].endTime = blocks[i].end
                   ELSE parsed[i].start = blocks[i].start
                            /\ parsed[i].end = blocks[i].end
                            /\ parsed[i].id = i

\* C12: after a ripple shift at index i no entry from i on has a negative start or
\* end; the two are clamped each on its own: start' = max(0, start + delta) and
\* end' = max(0, end + delta).
C12_ShiftClampsAtZero ==
    (last.op = "handleSubtitleShift" /\ ~isNaN(last.value)) =>
        LET old   == last.prev.subtitles
            i     == last.index
            delta == Sub(last.value, old[i].start)
            Max0(v) == IF Le(Zero, v) THEN v ELSE Zero
        IN  \A j \in i..Len(old) :
                /\ Le(Zero, subtitles[j].start)
                /\ Le(Zero, subtitles[j].end)
                /\ subtitles[j].start = Max0(Add(old[j].start, delta))
                /\ subtitles[j].end = Max0(Add(old[j].end, delta))

\* a shift to -1 clamped the start of the first entry and left its end above zero
C12_Witness ==
    /\ last.op = "handleSubtitleShift"
    /\ last.value = IntNum(-1)
    /\ last.index = 1
    /\ Lt(Add(last.prev.subtitles[1].start, Sub(last.value, last.prev.subtitles[1].start)), Zero)
    /\ subtitles[1].start = Zero
    /\ Lt(Zero, subtitles[1].end)

\* C13: an edit of a start or an end with the value NaN is a no-op and no error:
\* the timeline and the error state stay as they were.
C13_NaNEditIsNoOp ==
    (last.op \in {"handleSubtitleShift", "handleSubtitleEndChange"} /\ isNaN(last.value)) =>
        /\ subtitles = last.prev.subtitles
        /\ error = last.prev.error

\* an end input of a timeline of two entries was emptied
C13_Witness ==
    /\ last.op = "handleSubtitleEndChange"
    /\ isNaN(last.value)
    /\ last.index = 2
    /\ Len(subtitles) = 2

\* C14: an end edit with a number sets the end of the entry at index to it,
\* whatever its start, and changes nothing else of the timeline.
C14_EndEditSetsOnlyEnd ==
    (last.op = "handleSubtitleEndChange" /\ ~isNaN(last.value)) =>
        LET old == last.prev.subtitles
        IN  /\ Len(subtitles) = Len(old)
            /\ subtitles[last.index].end = last.value
            /\ subtitles[last.index].start = old[last.index].start
            /\ subtitles[last.index].text = old[last.index].text
            /\ subtitles[last.index].id = old[last.index].id
            /\ \A j \in 1..Len(old) : j # last.index => subtitles[j] = old[j]

\* the end of the first of two entries was set before its start
C14_Witness ==
    /\ last.op = "handleSubtitleEndChange"
    /\ last.index = 1
    /\ Len(subtitles) = 2
    /\ last.value = Zero
    /\ Lt(subtitles[1].end, subtitles[1].start)

\* C15: a text edit gives the targeted entry the new text and changes neither its
\* start, end, id or position nor any other entry, in both variants.
C15_TextEditSetsOnlyText ==
    /\ last.op = "handleSubtitleTextChange" =>
        LET old == last.prev.subtitles
        IN  /\ Len(subtitles) = Len(old)
            /\ subtitles[last.index] = [old[last.index] EXCEPT !.text = last.text]
            /\ \A j \in 1..Len(old) : j # last.index => subtitles[j] = old[j]
    /\ last.op = "updateSubtitleText" =>
        LET old == last.prev.subtitles
        IN  /\ Len(subtitles) = Len(old)
            /\ subtitles[last.index] = [old[last.index] EXCEPT !.text = last.text]
            /\ \A j \in 1..Len(old) : j # last.index => subtitles[j] = old[j]

\* the text of the second of two entries was replaced in the backend variant
C15_Witness ==
    /\ last.op = "handleSubtitleTextChange"
    /\ last.index = 2
    /\ Len(subtitles) = 2
    /\ subtitles[2].text = SomeText
    /\ last.prev.subtitles[2].text # SomeText

\* the steps in which a collaborator call ends in a failure
RejectedSteps ==
    {"handleTranscribe.rejected", "handleTranslate.rejected", "handleGenerateSpeech.rejected",
     "handleSyncVideo.rejected", "handleGenerateSrt.rejected", "handleExport.rejected"}

\* the steps in which a collaborator call is issued or goes on to its next await
CallSteps ==
    {"handleTranscribe", "handleTranscribe.extracted", "handleTranslate",
     "handleGenerateSpeech", "handleSyncVideo", "handleSyncVideo.durations",
     "handleGenerateSrt", "handleExport"}

\* C16: a collaborator call that fails ends with an error message, and neither
\* issuing the call nor its failure changes the timeline or the footage.
C16_CollaboratorFailureSurfaced ==
    /\ last.op \in RejectedSteps => error # Null
    /\ last.op \in RejectedSteps \cup CallSteps =>
        /\ subtitles = last.prev.subtitles
        /\ videoFile = last.prev.videoFile
        /\ videoSrc = last.prev.videoSrc

\* the generation of an SRT failed over a timeline that holds captions
C16_Witness ==
    /\ last.op = "handleGenerateSrt.rejected"
    /\ error = <<"Failed to generate SRT">>
    /\ subtitles # <<>>
    /\ videoFile # Null

\* C17: when the probe of the replacement audio reports an error or a zero length,
\* the synchronization fails: no footage is replaced and no entry is rescaled.
C17_UnknownAudioDurationFails ==
    (/\ variant = "browser"
     /\ last.req.kind = "handleSyncVideo"
     /\ last.req.aiAudioDuration \in {ProbeErrorDuration, Zero}) =>
        /\ last.op # "handleSyncVideo.resolved"
        /\ subtitles = last.prev.subtitles
        /\ videoFile = last.prev.videoFile
        /\ videoSrc = last.prev.videoSrc

\* HH:MM:SS,mmm of a number of seconds rounded to the nearest millisecond, the
\* hours not wrapped
RoundedTimecode(seconds) ==
    LET total == Round(Mul(seconds, IntNum(1000)))
    IN  padStart(NatToStr(total \div 3600000), 2) \o <<":">>
          \o padStart(NatToStr((total % 3600000) \div 60000), 2) \o <<":">>
          \o padStart(NatToStr((total % 60000) \div 1000), 2) \o <<",">>
          \o padStart(NatToStr(total % 1000), 3)

\* C18: for every number of seconds that is not negative the formatter gives
\* HH:MM:SS,mmm with the fraction rounded to the nearest millisecond, three
\* millisecond digits, a carry into the seconds where the fraction rounds up to
\* 1000, and hours that do not wrap.
C18_FormatterRoundsAndPads ==
    (fnOut # Null /\ fnIn.kind = "seconds") =>
        fnOut[1].srt = RoundedTimecode(fnIn.entries[1])

\* C19: the timecode parser of either variant gives 0, neither NaN nor a failure,
\* for a string that has not two or three fields or whose fields are no numbers.
C19_InvalidTimecodeIsZero ==
    (fnOut # Null /\ fnIn.kind = "timecode" /\ ~fnIn.entries[1].valid) =>
        fnOut[1].parsed = Zero

\* C20: the lookup gives the first entry in timeline order whose span holds t, both
\* bounds included, and none when t is outside every span; never more than one.
C20_ActiveEntryIsFirstMatch ==
    (fnOut # Null /\ fnIn.kind = "lookup") =>
        LET subs == fnIn.entries[1].subtitles
            t    == fnIn.entries[1].currentTime
            hits == {i \in 1..Len(subs) : Le(subs[i].start, t) /\ Le(t, subs[i].end)}
            shown == fnOut[1].parsed
        IN  IF hits = {} THEN shown = <<>>
            ELSE /\ Len(shown) = 1
                 /\ shown[1].text = subs[SetMin(hits)].text
                 /\ shown[1].id = SetMin(hits)

\* C21: every entry that either parser constructs has start >= 0 and end > start;
\* a block whose timing line gives end <= start produces no entry that breaks it.
C21_ParsedEntriesAreValid ==
    (/\ fnOut # Null
     /\ fnOut[1].op \in {"stringifySRT_parseSRT", "generateSRT_parseSRT", "parseSRT"}) =>
        LET parsed == IF variant = "backend" THEN BackendShape(fnOut[1].parsed)
                      ELSE BrowserShape(fnOut[1].parsed)
        IN  \A i \in 1..Len(parsed) :
                Le(Zero, parsed[i].start) /\ Lt(parsed[i].start, parsed[i].end)

\* C22: a successful synchronization keeps validity and order: an entry with
\* end > start before it has end > start after it, two entries ordered by start
\* before it are ordered by start after it, and no timing is clamped.
C22_SyncKeepsValidityAndOrder ==
    (variant = "browser" /\ last.op = "handleSyncVideo.resolved") =>
        LET old   == last.prev.subtitles
            ratio == Div(last.req.aiAudioDuration, last.req.currentVideoDuration)
        IN  /\ Len(subtitles) = Len(old)
            /\ \A j \in 1..Len(old) :
                /\ Lt(old[j].startTime, old[j].endTime) =>
                       Lt(subtitles[j].startTime, subtitles[j].endTime)
                /\ Lt(Zero, old[j].startTime) => Lt(Zero, subtitles[j].startTime)
                /\ Div(subtitles[j].endTime, old[j].endTime) = ratio
            /\ \A j, k \in 1..Len(old) :
                Le(old[j].startTime, old[k].startTime) =>
                    Le(subtitles[j].startTime, subtitles[k].startTime)

\* two valid, ordered entries were stretched by 15/4 and are valid and ordered
C22_Witness ==
    /\ variant = "browser"
    /\ last.op = "handleSyncVideo.resolved"
    /\ last.req.aiAudioDuration = IntNum(15)
    /\ last.req.currentVideoDuration = IntNum(4)
    /\ Len(subtitles) = 2
    /\ Lt(last.prev.subtitles[1].startTime, last.prev.subtitles[1].endTime)
    /\ Lt(last.prev.subtitles[1].startTime, last.prev.subtitles[2].startTime)
    /\ subtitles[1].startTime = Num(15, 4)
    /\ subtitles[1].endTime = Num(45, 4)
    /\ subtitles[2].startTime = Num(105, 8)

\* C23: synchronization is invertible: for positive durations a and b, rescaling a
\* timeline from a to b and then from b back to a yields the timeline again.  The
\* timings are exact rationals, so the two timelines are equal.
C23_SyncIsInvertible ==
    (fnOut # Null /\ fnOut[1].op = "rescale") =>
        fnOut[1].parsed = fnIn.entries[1].subtitles

\* two entries went from 4 s to 15 s and back
C23_Witness ==
    /\ fnOut # Null
    /\ fnOut[1].op = "rescale"
    /\ fnIn.currentVideoDuration = IntNum(4)
    /\ fnIn.aiAudioDuration = IntNum(15)
    /\ fnOut[1].stretchRatio = Num(15, 4)
    /\ Len(fnOut[1].parsed) = 2
    /\ fnOut[1].parsed[2].startTime = Num(7, 2)

\* C27: the updater of handleSubtitleShift applied twice in a row with the same
\* index and the same new start, the second time on the entries the first one
\* wrote, gives the timeline that one application gives, clamped starts included.
C27_ShiftIsIdempotent ==
    (fnOut # Null /\ fnOut[1].op = "shift") =>
        fnOut[1].parsed[1].twice = fnOut[1].parsed[1].once

\* C25 as stated: an entry with end <= start, inverted or zero-length, is never
\* the active entry, whatever the playback position.
C25_NoActiveEntryEndsAtOrBeforeStart ==
    (fnOut # Null /\ fnOut[1].op = "lookup" /\ variant = "backend") =>
        \A j \in 1..Len(fnOut[1].parsed) :
            Lt(fnOut[1].parsed[j].start, fnOut[1].parsed[j].end)

\* C25: an entry with end < start is never the active entry, whatever the playback
\* position; an entry with end = start is the active entry at no position but its
\* start.
C25_InvertedEntryNeverActive ==
    (fnOut # Null /\ fnOut[1].op = "lookup" /\ variant = "backend") =>
        \A j \in 1..Len(fnOut[1].parsed) :
            /\ Le(fnOut[1].parsed[j].start, fnOut[1].parsed[j].end)
            /\ fnOut[1].parsed[j].start = fnOut[1].parsed[j].end =>
                   fnIn.entries[1].currentTime = fnOut[1].parsed[j].start

\* the position 3 lies between the end 2 and the start 5 of the only entry, and
\* no entry is active
C25_Witness ==
    /\ fnOut # Null
    /\ fnOut[1].op = "lookup"
    /\ variant = "backend"
    /\ Len(fnIn.entries[1].subtitles) = 1
    /\ fnIn.entries[1].subtitles[1].start = IntNum(5)
    /\ fnIn.entries[1].subtitles[1].end = IntNum(2)
    /\ fnIn.entries[1].currentTime = IntNum(3)
    /\ fnOut[1].parsed = <<>>

\* C24: when a call that produces a timeline resolves (transcribe and translate in
\* the browser, generate-SRT with the backend), the timeline becomes the parse of
\* that response and nothing else: no entry of the previous timeline and no edit
\* made while the call was in flight is kept.
C24_ResponseReplacesTimeline ==
    /\ (Browser /\ last.op \in {"handleTranscribe.resolved", "handleTranslate.resolved"}) =>
           subtitles = parseSRT(last.text)
    /\ (Backend /\ last.op = "handleGenerateSrt.resolved") =>
           subtitles = parseSRT_backend(last.text)

\* a caption of two was rewritten while the translation was in flight, and the
\* one-entry answer replaced both
C24_Witness ==
    /\ Browser
    /\ last.op = "handleTranslate.resolved"
    /\ Len(last.req.subtitles) = 2
    /\ Len(last.prev.subtitles) = 2
    /\ last.req.subtitles[2].text # SomeText
    /\ last.prev.subtitles[2].text = SomeText
    /\ last.text = SrtB
    /\ Len(subtitles) = 1
    /\ subtitles[1].text = <<"H", "i">>

\* C26: the editor keeps the chronological order: a ripple shift, an end-time edit
\* or a text edit of a timeline ordered by non-decreasing start leaves a timeline
\* ordered by non-decreasing start.
C26_EditsKeepOrder ==
    (/\ Backend
     /\ last.op \in {"handleSubtitleShift", "handleSubtitleEndChange",
                     "handleSubtitleTextChange"}
     /\ \A j, k \in 1..Len(last.prev.subtitles) :
            j < k => Le(last.prev.subtitles[j].start, last.prev.subtitles[k].start)) =>
        \A j, k \in 1..Len(subtitles) :
            j < k => Le(subtitles[j].start, subtitles[k].start)

\* the operations whose call to a collaborator has not settled yet
InFlight ==
    {r.kind : r \in pending}

\* C28: at most one collaborator-backed operation is in flight at any time, and an
\* operation in flight holds its busy flag, isExporting for an export and
\* isProcessing for every other one, so no two of them overlap.
C28_OneOperationInFlight ==
    /\ Cardinality(pending) <= 1
    /\ \A r \in pending :
        IF r.kind = "handleExport" THEN isExporting /\ ~isProcessing
        ELSE isProcessing /\ ~isExporting
    /\ last.op \in {"handleTranscribe", "handleTranslate", "handleGenerateSpeech",
                    "handleSyncVideo", "handleGenerateSrt", "handleExport"} =>
           Cardinality(InFlight) = 1

\* an export has just started and is the only operation in flight
C28_Witness ==
    /\ last.op = "handleExport"
    /\ InFlight = {"handleExport"}
    /\ isExporting
    /\ ~isProcessing
    /\ requests = MaxRequests

\* the steps in which a handler's collaborator call has resolved or rejected, or
\* its handler has thrown
SettledSteps ==
    RejectedSteps \cup
        {"handleTranscribe.resolved", "handleTranslate.resolved",
         "handleGenerateSpeech.resolved", "handleSyncVideo.resolved",
         "handleSyncVideo.invalid", "handleGenerateSrt.resolved", "handleExport.resolved"}

\* C29: once the call of a handler has resolved or rejected the busy flags are
\* false and processingStep is empty, on the success path and on every failure
\* path; no busy flag is set while no operation is in flight.
C29_BusyFlagReleased ==
    /\ last.op \in SettledSteps =>
           ~isProcessing /\ ~isExporting /\ processingStep = ""
    /\ pending = {} => ~isProcessing /\ ~isExporting /\ processingStep = ""

\* the third call of the session has failed and the session is free again
C29_Witness ==
    /\ last.op \in {"handleSyncVideo.rejected", "handleExport.rejected"}
    /\ requests = MaxRequests
    /\ error # Null
    /\ pending = {}
    /\ ~isProcessing
    /\ ~isExporting
    /\ processingStep = ""

\* C30: after a successful synchronization of the in-browser variant the current
\* duration of the session is the audio's duration, so that a second
\* synchronization with the same audio would compute the ratio 1: right after the
\* first one, and after the stretched footage has loaded its metadata.
C30_ResyncRatioIsOne ==
    /\ (Browser /\ last.op = "handleSyncVideo.resolved") =>
           StretchRatio(last.req.aiAudioDuration,
                        CurrentVideoDuration(elDuration, duration)) = IntNum(1)
    /\ (/\ Browser
        /\ last.op = "onLoadedMetadata"
        /\ videoFile # Null
        /\ videoFile[1].name = "synced_video.mp4") =>
           StretchRatio(last.prev.duration,
                        CurrentVideoDuration(elDuration, duration)) = IntNum(1)

====
